---- MODULE Spec2Model ----
(***************************************************************************)
(* A model of src/index.tsx (AI Article Architect): the retry wrapper, the *)
(* article assembly pipeline, the placeholder parser / markup renderer and *)
(* the operations on stored articles.                                      *)
(*                                                                         *)
(* The program is single threaded and event driven: every handler runs     *)
(* until its next `await`, so one action of the model is one such segment  *)
(* of a handler, and an AI call in flight is a position (pc) at which the  *)
(* call's outcome is chosen.                                               *)
(***************************************************************************)
EXTENDS Integers, Sequences, FiniteSets, TLC

VARIABLES
    retry,                  \* one execution of withRetry(fn, retries, delay)
    apiKey,                 \* apiKey is set (non-null)
    btnDisabled,            \* analyzePersonaBtn.disabled
    step1Hidden,            \* #step-1-persona-input has class hidden
    step2Hidden,            \* #step-2-outline-suggestions has class hidden
    step3Hidden,            \* #step-3-creative-director has class hidden
    suggestedOutlines,      \* length of the array suggestedOutlines
    outlineCards,           \* number of .outline-card elements in the page
    selectedOutline,        \* 0 (null / undefined) or the index of the outline
    suggestedDirections,    \* length of the array suggestedDirections
    directionCards,         \* number of .creative-direction-card elements
    selectedDirection,      \* 0 (null / undefined) or the index of the direction
    currentResearchedText,  \* "" or the research summary
    pcSubmit,               \* position of the form submit handler
    pcDirections,           \* position of generateCreativeDirections
    timers,                 \* pending setTimeout(generateArticleAssemblyLine, 300)
    run,                    \* the executions of generateArticleAssemblyLine
    articles,               \* the metadata list `articles` (newest first)
    imageDb,                \* the IndexedDB store articleImages, keyed by id
    currentArticle,         \* the article object shown, NoArticle when null
    display,                \* what #result / #article-output shows
    rendering,              \* renderArticle calls suspended at updateArticleInHistory
    currentPerformanceArticleId, \* 0 (null) or the id the performance modal is for
    pcEdit,                 \* saveEditButton handler: <<>> or <<newMarkdown>>
    pcProofread,            \* position of the proofreadButton handler
    pcFactCheck,            \* position of the factCheckButton handler
    pcAudit,                \* handleContentAudit: <<>> or <<the stub it read>>
    promptArticle,          \* per handler, the id of the article its call is about
    core,                   \* one execution of step1_generateCoreText
    histPending,            \* history calls suspended at their IndexedDB await
    now,                    \* Date.now() of the last article created
    histCalls,              \* history calls made so far
    videoGenerationPollingInterval, \* 0 (null) or the id of a timer
    liveTimers,             \* ids of the setInterval timers not cleared
    timersCreated,          \* the id setInterval returned last
    objects,                \* the article objects of the video operations
    videoCalls,             \* the executions of generateVideo
    videoTicks,             \* the executions of the polling callback
    videoOpens,             \* .edit-btn handlers suspended at getImagesFromDb
    isSpeaking,             \* the flag isSpeaking
    utterances,             \* utterances in the queue of speechSynthesis
    speaking,               \* speechSynthesis is speaking the first of them
    cancelledEnds,          \* end events of cancelled utterances not yet dispatched
    pcAudio,                \* position of the generateAudioButton handler
    currentAudioContext,    \* currentAudioContext is set (non-null)
    audioPlayer,            \* what #audio-player-container holds
    submits,                \* the executions of the form submit handler
    audits,                 \* the executions of handleContentAudit
    currentAuditSuggestions, \* per suggestion of the array, the id of the article it is about
    editWithSuggestionsHidden, \* #edit-with-suggestions-btn has class hidden
    currentAuditArticleId,  \* 0 (null) or the id of the article audited last
    suggestionEdit,         \* the editWithSuggestionsBtn handler and what it loaded
    controls,               \* the buttons of the async actions and their runs
    fnCall                  \* one call of a function of the program on its own

flowVars == <<apiKey, btnDisabled, step1Hidden, step2Hidden, step3Hidden,
              suggestedOutlines, outlineCards, selectedOutline,
              suggestedDirections, directionCards, selectedDirection,
              currentResearchedText, pcSubmit, pcDirections, timers>>
storeVars == <<articles, imageDb, currentArticle, display, rendering>>
pipelineVars == <<flowVars, run, storeVars>>
articleVars == <<currentPerformanceArticleId, pcEdit, pcProofread, pcFactCheck,
                 pcAudit, promptArticle>>

\* no handler has a call in flight: the article whose markdown went into
\* the prompt (or, for the edit, into the editor and the analysis call)
NoPrompts == [edit |-> 0, proofread |-> 0, factCheck |-> 0]

coreVars == <<core>>
histVars == <<histPending, now, histCalls>>
pollVars == <<videoGenerationPollingInterval, liveTimers, timersCreated>>
videoVars == <<pollVars, objects, videoCalls, videoTicks, videoOpens>>
audioVars == <<isSpeaking, utterances, speaking, cancelledEnds, pcAudio,
               currentAudioContext, audioPlayer>>
submitVars == <<submits>>
auditVars == <<audits, currentAuditSuggestions, editWithSuggestionsHidden,
               currentAuditArticleId, suggestionEdit>>
controlVars == <<controls>>
fnVars == <<fnCall>>
auxVars == <<coreVars, histVars, videoVars, audioVars, submitVars, auditVars,
            controlVars, fnVars>>

\* what the actions of one part of the program leave unchanged
exceptCore == <<retry, pipelineVars, articleVars, histVars, videoVars,
                audioVars, submitVars, auditVars,
                controlVars, fnVars>>
exceptHist == <<retry, flowVars, run, rendering, articleVars, coreVars,
                videoVars, audioVars, submitVars, auditVars,
                controlVars, fnVars>>

vars == <<retry, pipelineVars, articleVars, auxVars>>

\* no video is generated and no timer was set
VideoIdle ==
    /\ videoGenerationPollingInterval = 0 /\ liveTimers = {}
    /\ timersCreated = 0 /\ objects = <<>> /\ videoCalls = <<>>
    /\ videoTicks = <<>> /\ videoOpens = {}

\* nothing is read aloud and no audio was generated
AudioIdle ==
    /\ isSpeaking = FALSE /\ utterances = 0 /\ speaking = FALSE
    /\ cancelledEnds = 0 /\ pcAudio = "idle"
    /\ currentAudioContext = FALSE /\ audioPlayer = "empty"

\* no execution of the form submit handler is followed one by one
SubmitsIdle == submits = <<>>

\* no article was audited
AuditsIdle ==
    /\ audits = <<>> /\ currentAuditSuggestions = <<>>
    /\ editWithSuggestionsHidden = TRUE
    /\ currentAuditArticleId = 0
    /\ suggestionEdit = [pc |-> "idle", stub |-> [id |-> 0], loaded |-> <<>>]

\* the buttons of the async actions are not followed
ControlsIdle == controls = <<>>

\* no function is called on its own
FnIdle == fnCall = <<>>

\* the parts of the program outside the pipeline and the article handlers
\* are at rest
AuxIdle ==
    /\ core = [pc |-> "unused"]
    /\ histPending = <<>> /\ now = 0 /\ histCalls = 0
    /\ VideoIdle /\ AudioIdle /\ SubmitsIdle /\ AuditsIdle /\ ControlsIdle /\ FnIdle

----------------------------------------------------------------------------
(* Bounds and program constants                                            *)

\* largest `retries` argument explored (every caller passes the default, 3)
MaxRetries == 3

\* default base delay of withRetry in milliseconds
DefaultDelay == 1000

\* results and errors an invocation of fn can produce
FnValues == {"v1", "v2"}
FnErrors == {"e1", "e2"}

----------------------------------------------------------------------------
(* withRetry: src/index.tsx line 2383                                      *)
(*   for (let i = 0; i < retries; i++) {                                   *)
(*     try { return await fn(); }                                          *)
(*     catch (e) { if (i === retries - 1) throw e;                         *)
(*                 await new Promise(res => setTimeout(res, delay*(i+1))); *)
(*   } }                                                                   *)
(*   throw new Error("Retry logic failed");                                *)

\* mutant of RetryWait: a constant pause instead of a linear backoff
RetryWaitConstant(delay, i) == delay

\* the pause after the failed attempt of loop index i
RetryWait(delay, i) == delay * (i + 1)

\* whether the failure of the attempt of loop index i is rethrown
IsLastAttempt(i, retries) == i = retries - 1

RetryInit ==
    /\ apiKey = TRUE /\ btnDisabled = FALSE
    /\ step1Hidden = FALSE /\ step2Hidden = TRUE /\ step3Hidden = TRUE
    /\ suggestedOutlines = 0 /\ outlineCards = 0 /\ selectedOutline = 0
    /\ suggestedDirections = 0 /\ directionCards = 0 /\ selectedDirection = 0
    /\ currentResearchedText = "" /\ pcSubmit = "idle" /\ pcDirections = "idle"
    /\ timers = 0 /\ run = <<>> /\ articles = <<>> /\ imageDb = <<>>
    /\ currentArticle = [id |-> 0] /\ display = "initial" /\ rendering = {}
    /\ currentPerformanceArticleId = 0 /\ pcEdit = <<>>
    /\ pcProofread = "idle" /\ pcFactCheck = "idle" /\ pcAudit = <<>>
    /\ promptArticle = NoPrompts
    /\ AuxIdle
    /\ \E n \in 1..MaxRetries, d \in {DefaultDelay, 2 * DefaultDelay} :
        retry = [retries |-> n, delay |-> d, i |-> 0, pc |-> "loop",
                 attempts |-> <<>>, waits |-> <<>>, calls |-> 0,
                 result |-> "none"]

\* the loop test and the invocation of fn
RetryInvoke ==
    /\ UNCHANGED <<pipelineVars, articleVars, auxVars>>
    /\ retry.pc = "loop"
    /\ IF retry.i < retry.retries
         THEN retry' = [retry EXCEPT !.pc = "call", !.calls = @ + 1]
         ELSE retry' = [retry EXCEPT !.pc = "thrown",
                                     !.result = "Retry logic failed"]

\* fn() resolves: withRetry returns its value
RetryFnResolves ==
    /\ UNCHANGED <<pipelineVars, articleVars, auxVars>>
    /\ retry.pc = "call"
    /\ \E v \in FnValues :
         retry' = [retry EXCEPT !.pc = "returned", !.result = v,
                                !.attempts = Append(@, [ok |-> TRUE, val |-> v])]

\* fn() rejects: rethrow on the last attempt, otherwise start the pause
RetryFnRejects ==
    /\ UNCHANGED <<pipelineVars, articleVars, auxVars>>
    /\ retry.pc = "call"
    /\ \E e \in FnErrors :
         IF IsLastAttempt(retry.i, retry.retries)
           THEN retry' = [retry EXCEPT !.pc = "thrown", !.result = e,
                            !.attempts = Append(@, [ok |-> FALSE, val |-> e])]
           ELSE retry' = [retry EXCEPT !.pc = "sleep",
                            !.attempts = Append(@, [ok |-> FALSE, val |-> e]),
                            !.waits = Append(@, RetryWait(retry.delay, retry.i))]

\* the setTimeout of the pause fires: i++ and back to the loop test
RetryTimerFires ==
    /\ UNCHANGED <<pipelineVars, articleVars, auxVars>>
    /\ retry.pc = "sleep"
    /\ retry' = [retry EXCEPT !.pc = "loop", !.i = @ + 1]

NextRetry ==
    \/ RetryInvoke
    \/ RetryFnResolves
    \/ RetryFnRejects
    \/ RetryTimerFires

SpecRetry == RetryInit /\ [][NextRetry]_vars

\* C5: withRetry invokes fn at most `retries` times; a successful invocation
\* is the last one and its value is the result; the k-th pause lasts delay*k
\* and there is one pause per failed attempt that is not the last allowed
\* one; when every attempt failed the error of the last attempt is thrown
\* with no pause after it.
C5_WithRetryContract ==
    LET n == Len(retry.attempts)
        failedEarly == {k \in 1..n : ~retry.attempts[k].ok /\ k < retry.retries}
    IN  /\ retry.calls <= retry.retries
        /\ n <= retry.calls
        /\ \A k \in 1..n : retry.attempts[k].ok =>
               /\ k = n
               /\ retry.pc = "returned"
               /\ retry.result = retry.attempts[k].val
               /\ retry.calls = n
        /\ retry.pc = "returned" => n >= 1 /\ retry.attempts[n].ok
        /\ Len(retry.waits) = Cardinality(failedEarly)
        /\ \A k \in 1..Len(retry.waits) : retry.waits[k] = retry.delay * k
        /\ retry.pc = "thrown" =>
               /\ n = retry.retries
               /\ \A k \in 1..n : ~retry.attempts[k].ok
               /\ retry.result = retry.attempts[n].val
               /\ Len(retry.waits) = retry.retries - 1

\* C5 witness: three attempts failed, two pauses of 1000 and 2000 ms, rethrown
C5_Witness ==
    /\ retry.pc = "thrown"
    /\ retry.retries = 3
    /\ retry.delay = DefaultDelay
    /\ retry.waits = <<1000, 2000>>
    /\ retry.result = retry.attempts[3].val

----------------------------------------------------------------------------
(* Markdown as a sequence of tokens.  A token stands for a piece of text    *)
(* that the regular expressions of the program treat as a unit:             *)
(*   "IG"  the literal  [IMAGE_GENERATE:                                    *)
(*   "IS"  the literal  [IMAGE_SCREENSHOT:                                  *)
(*   "IC"  the literal  [INTERACTIVE_CHART:                                 *)
(*   "{" "}" "]"  these characters                                          *)
(*   "nl"  a line break                                                     *)
(*   "q"   one well-formed JSON member, e.g. "prompt":"a cat"               *)
(*   "q&"  a well-formed JSON member with &, < or > in its string           *)
(*   "qu"  a well-formed JSON member with non-ASCII text in its string      *)
(*   "["   a JSON member up to the elements of its array value, e.g.        *)
(*         "labels":["a","b"   (the array is closed by "]")                 *)
(*   "[!"  the same with a comma missing between two elements               *)
(*   "u"   a non-ASCII character of ordinary text                           *)
(*   "t"   a character of ordinary text (not valid inside a JSON object)    *)
(*   "&"   an ampersand of ordinary text                                    *)
(* and, in markup only, "&amp;" (an escaped ampersand) and "q&amp;" (the    *)
(* member "q&" escaped).                                                    *)

\* the least element of a set of positions, or 0 when it is empty
FirstOf(S) == IF S = {} THEN 0 ELSE CHOOSE x \in S : \A y \in S : x <= y

\* /\[TAG:({.*?})\]/ and /\[TAG:({[\s\S]*?})\]/ tried at position i of s:
\* the index of the closing "]" of the match, or 0.  `.` does not match a
\* line break, [\s\S] does (dotAll).
PlaceholderEnd(s, i, openers, dotAll) ==
    IF ~(i + 1 <= Len(s) /\ s[i] \in openers /\ s[i + 1] = "{") THEN 0
    ELSE LET j == FirstOf({x \in (i + 2)..(Len(s) - 1) : s[x] = "}" /\ s[x + 1] = "]"})
         IN  IF j = 0 THEN 0
             ELSE IF ~dotAll /\ \E m \in (i + 2)..(j - 1) : s[m] = "nl" THEN 0
             ELSE j + 1

\* the matches of the global regular expression from position p on, in
\* order, as <<first, last>> index pairs (the exec / replace scan: after a
\* match the scan resumes behind it)
RECURSIVE PlaceholderMatches(_, _, _, _)
PlaceholderMatches(s, p, openers, dotAll) ==
    LET i == FirstOf({x \in p..Len(s) : PlaceholderEnd(s, x, openers, dotAll) # 0})
    IN  IF i = 0 THEN <<>>
        ELSE LET e == PlaceholderEnd(s, i, openers, dotAll)
             IN  <<(<<i, e>>)>> \o PlaceholderMatches(s, e + 1, openers, dotAll)

\* s without its line breaks (JSON white space)
RECURSIVE StripWhitespace(_)
StripWhitespace(s) ==
    IF s = <<>> THEN <<>>
    ELSE IF Head(s) = "nl" THEN StripWhitespace(Tail(s))
    ELSE <<Head(s)>> \o StripWhitespace(Tail(s))

\* the members of a JSON object: well-formed members and members with a
\* well-formed array value
RECURSIVE JsonMembers(_)
JsonMembers(w) ==
    IF w = <<>> THEN TRUE
    ELSE IF Head(w) \in {"q", "q&", "q&amp;", "qu"} THEN JsonMembers(Tail(w))
    ELSE IF Head(w) = "[" /\ Len(w) >= 2 /\ w[2] = "]"
      THEN JsonMembers(Tail(Tail(w)))
    ELSE FALSE

\* JSON.parse(payload) succeeds: an object of well-formed members
JsonParses(payload) ==
    LET w == StripWhitespace(payload)
    IN  /\ Len(w) >= 2
        /\ w[1] = "{"
        /\ w[Len(w)] = "}"
        /\ JsonMembers(SubSeq(w, 2, Len(w) - 1))

\* the text of a match
MatchText(s, m) == SubSeq(s, m[1], m[2])

\* the JSON payload of a placeholder match: capture group ({...})
MatchPayload(s, m) == SubSeq(s, m[1] + 1, m[2] - 1)

\* the key of the cover image task
CoverKey == <<"cover">>

\* generateArticleAssemblyLine, step 3: the keys of the image tasks parsed
\* out of the decorated markdown, in order (a placeholder whose JSON does
\* not parse is logged and skipped)
ArticleImageTasks(md) ==
    LET ms == PlaceholderMatches(md, 1, {"IG"}, FALSE)
        RECURSIVE Keep(_)
        Keep(k) == IF k > Len(ms) THEN <<>>
                   ELSE IF JsonParses(MatchPayload(md, ms[k]))
                          THEN <<MatchText(md, ms[k])>> \o Keep(k + 1)
                          ELSE Keep(k + 1)
    IN  Keep(1)

\* allImageTasks: the cover task first, then the article's image tasks
AllImageTasks(md) == <<CoverKey>> \o ArticleImageTasks(md)

\* finalizeArticle: the keys of the screenshot placeholders whose JSON parses
ScreenshotKeys(md) ==
    LET ms == PlaceholderMatches(md, 1, {"IS"}, FALSE)
    IN  {MatchText(md, ms[k]) : k \in {x \in 1..Len(ms) : JsonParses(MatchPayload(md, ms[x]))}}

\* mutant of FinalImageMap: the screenshot placeholders get no entry
FinalImageMapNoScreenshots(md, generatedImages) == generatedImages

\* finalizeArticle: finalImageMap = { ...generatedImages } plus one
\* screenshot record per parsed screenshot placeholder (a later write to the
\* same key wins)
FinalImageMap(md, generatedImages) ==
    [key \in (DOMAIN generatedImages) \cup ScreenshotKeys(md) |->
        IF key \in ScreenshotKeys(md) THEN "screenshot" ELSE generatedImages[key]]

\* renderMarkdownToHtml, first step: & < > are escaped
EscapeToken(t) ==
    IF t = "&" THEN "&amp;" ELSE IF t = "q&" THEN "q&amp;" ELSE t
EscapeHtml(s) == [k \in 1..Len(s) |-> EscapeToken(s[k])]

\* the text a piece of escaped markup came from
UnescapeToken(t) ==
    IF t = "&amp;" THEN "&" ELSE IF t = "q&amp;" THEN "q&" ELSE t
UnescapeHtml(s) == [k \in 1..Len(s) |-> UnescapeToken(s[k])]

\* Markup is a sequence of items: a piece of text (one token) or an element
\* produced by the renderer, with the text it carries.
TextItems(s) == [k \in 1..Len(s) |-> [el |-> "text", data |-> <<s[k]>>]]

\* the text of a markup as the next regular expression sees it: an element
\* is one opaque token
MarkupTokens(h) == [k \in 1..Len(h) |-> IF h[k].el = "text" THEN h[k].data[1] ELSE "#"]

\* renderMarkdownToHtml, second step: /\[INTERACTIVE_CHART:([\s\S]*?)\]/gs
\* replaced by a chart container carrying the payload, or by the error
\* block when JSON.parse of the payload throws
RECURSIVE ReplaceCharts(_, _)
ReplaceCharts(s, p) ==
    LET i == FirstOf({x \in p..Len(s) : s[x] = "IC" /\ \E j \in (x + 1)..Len(s) : s[j] = "]"})
    IN  IF i = 0 THEN TextItems(SubSeq(s, p, Len(s)))
        ELSE LET e == FirstOf({j \in (i + 1)..Len(s) : s[j] = "]"})
                 payload == SubSeq(s, i + 1, e - 1)
                 block == IF JsonParses(payload)
                            THEN [el |-> "chart-container", data |-> payload]
                            ELSE [el |-> "error", data |-> <<>>]
             IN  TextItems(SubSeq(s, p, i - 1)) \o <<block>> \o ReplaceCharts(s, e + 1)

\* renderMarkdownToHtml, third step: every image or screenshot placeholder
\* becomes an empty wrapper, which carries the matched text here; its
\* data-key is EncodeUnicode of that text
RECURSIVE ReplaceImagePlaceholders(_, _)
ReplaceImagePlaceholders(h, p) ==
    LET s == MarkupTokens(h)
        ms == PlaceholderMatches(s, p, {"IG", "IS"}, TRUE)
    IN  IF ms = <<>> THEN SubSeq(h, p, Len(h))
        ELSE SubSeq(h, p, ms[1][1] - 1)
             \o <<[el |-> "image-placeholder-wrapper", data |-> MatchText(s, ms[1])]>>
             \o ReplaceImagePlaceholders(h, ms[1][2] + 1)

\* renderMarkdownToHtml (the steps that touch placeholders)
RenderMarkdownToHtml(md) ==
    ReplaceImagePlaceholders(ReplaceCharts(EscapeHtml(md), 1), 1)

\* renderArticle: the keys looked up in imageMap, decodeUnicode(data-key) of
\* every wrapper of the markup
WrapperKeys(html) ==
    {html[k].data : k \in {x \in 1..Len(html) : html[x].el = "image-placeholder-wrapper"}}

----------------------------------------------------------------------------
(* The interactive flow and the assembly pipeline                          *)

\* executions of generateArticleAssemblyLine explored (a run's index is also
\* the id, Date.now(), of the article it creates)
MaxRuns == 1

\* the same for the specification of consecutive runs
MaxFlowRuns == 2

\* asynchronous activities (submit handler, direction call, direction
\* timer, assembly run, pending render) in flight when the user starts
\* another one
MaxBusy == 1

\* largest number of outlines / directions the AI returns
MaxOutlines == 1
MaxDirections == 1

\* cap of the history: src/index.tsx line 2416
HistoryCap == 50

Runs == DOMAIN run

\* decorated markdown the decoration stage can return
DecoratedSamples ==
    { <<"t", "IG", "{", "q", "}", "]", "IS", "{", "q", "}", "]">>,
      <<"IG", "{", "t", "}", "]", "t">> }

\* what the AI calls of the pipeline stages can return: the decorated
\* markdown, and per stage the outcome after the retries
AnyOutcome ==
    [md |-> DecoratedSamples, image |-> {"img", "error"},
     faq |-> {"faqs", "undefined"}, performance |-> {"analysis", "undefined"},
     enhancements |-> {"bundle", "empty"}]

\* the same when every call after the decoration succeeds
GoodOutcome ==
    [md |-> {<<"t", "IG", "{", "q", "}", "]">>}, image |-> {"img"},
     faq |-> {"faqs"}, performance |-> {"analysis"},
     enhancements |-> {"bundle"}]

NoArticle == [id |-> 0]
EmptyMap == [key \in {} |-> "error"]

IdleRun == [pc |-> "idle", md |-> <<>>, k |-> 0, images |-> EmptyMap,
            faqs |-> "undefined", performance |-> "undefined",
            enhancements |-> "empty", item |-> NoArticle,
            progress |-> <<>>, calls |-> <<>>, imageCalls |-> <<>>,
            failedAt |-> "none", reason |-> "none", stageFailed |-> {}, fallback |-> FALSE]

InFlight(r) == run[r].pc \notin {"idle", "complete", "failed"}

\* no handler of an operation on a stored article is running
HandlersIdle ==
    /\ currentPerformanceArticleId = 0 /\ pcEdit = <<>>
    /\ pcProofread = "idle" /\ pcFactCheck = "idle" /\ pcAudit = <<>>
    /\ promptArticle = NoPrompts

\* the values of the pipeline's variables at page load: the create mode is
\* shown, nothing is selected, the history is empty
FlowIdle(key) ==
    /\ apiKey = key /\ btnDisabled = ~key
    /\ step1Hidden = FALSE /\ step2Hidden = TRUE /\ step3Hidden = TRUE
    /\ suggestedOutlines = 0 /\ outlineCards = 0 /\ selectedOutline = 0
    /\ suggestedDirections = 0 /\ directionCards = 0 /\ selectedDirection = 0
    /\ currentResearchedText = "" /\ pcSubmit = "idle" /\ pcDirections = "idle"
    /\ timers = 0

\* the same with an empty history and n slots for assembly runs
PipelineIdle(key, n) ==
    /\ FlowIdle(key)
    /\ run = [r \in 1..n |-> IdleRun]
    /\ articles = <<>> /\ imageDb = EmptyMap
    /\ currentArticle = NoArticle /\ display = "initial" /\ rendering = {}
    /\ HandlersIdle

RetryIdle == retry = [pc |-> "unused"]

\* DOMContentLoaded: checkApiKeyOnLoad, loadArticlesFromStorage (an empty
\* history), switchMode('create')
Init ==
    /\ RetryIdle
    /\ AuxIdle
    /\ \E key \in BOOLEAN : PipelineIdle(key, MaxRuns)

\* the same page load, for the specification of consecutive runs
InitFlow ==
    /\ RetryIdle
    /\ AuxIdle
    /\ \E key \in BOOLEAN : PipelineIdle(key, MaxFlowRuns)

\* a function with one entry written: results[key] = value
Put(f, key, value) ==
    [x \in (DOMAIN f) \cup {key} |-> IF x = key THEN value ELSE f[x]]

\* mutant of Without: the delete request has no effect
WithoutNothing(f, key) == f

\* a function with one entry deleted: store.delete(key)
Without(f, key) == [x \in (DOMAIN f) \ {key} |-> f[x]]

\* the record without its binary assets: { coverImage, imageMap, ...rest }
WithoutImages(item) ==
    [f \in (DOMAIN item) \ {"coverImage", "imageMap"} |-> item[f]]

\* mutant of RunFailed: the error is swallowed and the decoration call is
\* made all the same
RunFailedContinues(rec, stage, reason) ==
    [rec EXCEPT !.pc = "decorate", !.failedAt = stage, !.reason = reason,
                !.calls = Append(@, "decorate")]

\* the catch block of generateArticleAssemblyLine
RunFailed(rec, stage, reason) ==
    [rec EXCEPT !.pc = "failed", !.failedAt = stage, !.reason = reason]

\* mutant of NewItem: a failed FAQ stage is stored as an FAQ list
NewItemWithFaqs(rec, id, direction) ==
    [id |-> id, md |-> rec.md, html |-> <<>>, faqs |-> "faqs",
     performance |-> rec.performance, enhancements |-> rec.enhancements,
     creativeDirection |-> direction, factCheck |-> "unchecked",
     scheduledAt |-> "undefined", lastCheckedForUpdate |-> "undefined",
     coverImage |-> IF rec.images[CoverKey] # "error" THEN rec.images[CoverKey]
                    ELSE "undefined",
     imageMap |-> FinalImageMap(rec.md, rec.images)]

\* finalizeArticle: newItem, built after the enhancement stage
NewItem(rec, id, direction) ==
    [id |-> id, md |-> rec.md, html |-> <<>>, faqs |-> rec.faqs,
     performance |-> rec.performance, enhancements |-> rec.enhancements,
     creativeDirection |-> direction, factCheck |-> "unchecked",
     scheduledAt |-> "undefined", lastCheckedForUpdate |-> "undefined",
     coverImage |-> IF rec.images[CoverKey] # "error" THEN rec.images[CoverKey]
                    ELSE "undefined",
     imageMap |-> FinalImageMap(rec.md, rec.images)]

\* the enrichment stages of finalizeArticle, entered at `stage`: every stage
\* sets the progress index and then either has its AI call in flight or, when
\* getGenAIClient throws inside the stage's try (no API key), fails at once
\* and the next stage is entered in the same turn
RECURSIVE EnterStage(_, _, _, _, _)
EnterStage(rec, stage, key, id, direction) ==
    IF stage = "faq" THEN
        LET r1 == [rec EXCEPT !.progress = Append(@, 3)]
        IN  IF key THEN [r1 EXCEPT !.pc = "faq", !.calls = Append(@, "faq")]
            ELSE EnterStage([r1 EXCEPT !.faqs = "undefined",
                                       !.stageFailed = @ \cup {"faq"}],
                            "performance", key, id, direction)
    ELSE IF stage = "performance" THEN
        LET r1 == [rec EXCEPT !.progress = Append(@, 4)]
        IN  IF key THEN [r1 EXCEPT !.pc = "performance",
                                   !.calls = Append(@, "performance")]
            ELSE EnterStage([r1 EXCEPT !.performance = "undefined",
                                       !.stageFailed = @ \cup {"performance"}],
                            "enhancements", key, id, direction)
    ELSE IF stage = "enhancements" THEN
        LET r1 == [rec EXCEPT !.progress = Append(@, 5)]
        IN  IF key THEN [r1 EXCEPT !.pc = "enhancements",
                                   !.calls = Append(@, "enhancements")]
            ELSE EnterStage([r1 EXCEPT !.enhancements = "empty",
                                       !.stageFailed = @ \cup {"enhancements"}],
                            "save", key, id, direction)
    ELSE \* updateProgress(6), newItem, await addArticleToHistory(newItem)
        LET r1 == [rec EXCEPT !.progress = Append(@, 6)]
        IN  [r1 EXCEPT !.pc = "saving", !.item = NewItem(r1, id, direction)]

\* step 3 of generateArticleAssemblyLine entered with the decorated markdown:
\* updateProgress(2), the tasks are parsed, generateAndStoreImages is called;
\* its getGenAIClient() stands outside the per-task try, so without an API
\* key the call throws into the catch block of the assembly line
EnterImages(rec, md, key) ==
    LET r1 == [rec EXCEPT !.md = md, !.progress = Append(@, 2)]
    IN  IF key THEN [r1 EXCEPT !.pc = "images", !.k = 1,
                               !.calls = Append(@, "images"),
                               !.imageCalls = <<CoverKey>>]
        ELSE RunFailed(r1, "images", "no key")

\* mutant of EnterDecorate: updateProgress(1) is left out
EnterDecorateNoProgress(rec, key) ==
    IF key THEN [rec EXCEPT !.pc = "decorate", !.calls = Append(@, "decorate")]
    ELSE RunFailed(rec, "decorate", "no key")

\* step 2 entered with the core markdown: updateProgress(1), then
\* step2_decorateMarkdown, whose getGenAIClient() is inside its try and whose
\* catch rethrows
EnterDecorate(rec, key) ==
    LET r1 == [rec EXCEPT !.progress = Append(@, 1)]
    IN  IF key THEN [r1 EXCEPT !.pc = "decorate", !.calls = Append(@, "decorate")]
        ELSE RunFailed(r1, "decorate", "no key")

\* generateArticleAssemblyLine up to its first await: updateProgress(0) and
\* step1_generateCoreText up to the streaming call
EnterCore(rec, key) ==
    LET r1 == [rec EXCEPT !.progress = Append(@, 0)]
    IN  IF key THEN [r1 EXCEPT !.pc = "core", !.calls = Append(@, "core")]
        ELSE RunFailed(r1, "core", "no key")

\* the slot of the next execution of generateArticleAssemblyLine, 0 if none
FreeRun == FirstOf({r \in Runs : run[r].pc = "idle"})

\* the asynchronous activities in flight
Busy ==
    (IF pcSubmit # "idle" THEN 1 ELSE 0) + (IF pcDirections # "idle" THEN 1 ELSE 0)
    + timers + Cardinality({r \in Runs : InFlight(r)}) + Cardinality(rendering)
    + (IF pcEdit # <<>> THEN 1 ELSE 0) + (IF pcProofread # "idle" THEN 1 ELSE 0)
    + (IF pcFactCheck # "idle" THEN 1 ELSE 0) + (IF pcAudit # <<>> THEN 1 ELSE 0)

\* the user starts a further activity
UserMayStart == Busy < MaxBusy

\* generateArticleAssemblyLine goes past `if (!selectedOutline) return`
AssemblyLineStarts(outline) == outline # 0

\* A call of generateArticleAssemblyLine() with selectedOutline = outline:
\* the variables it writes.  step2 is the value of step2Hidden the caller
\* left; fallback tells that the caller is the catch block of
\* generateCreativeDirections, whose finally block runs setLoading(false)
\* after the call has returned its promise.
CallAssemblyLine(outline, step2, fallback) ==
    IF ~AssemblyLineStarts(outline)
      THEN /\ btnDisabled' = IF fallback THEN FALSE ELSE btnDisabled
           /\ step2Hidden' = step2
           /\ UNCHANGED <<step3Hidden, run, display>>
      ELSE /\ FreeRun # 0
           /\ LET rec == EnterCore([run[FreeRun] EXCEPT !.fallback = fallback],
                                   apiKey)
              IN  /\ run' = [run EXCEPT ![FreeRun] = rec]
                  /\ step2Hidden' = TRUE
                  /\ step3Hidden' = TRUE
                  \* setLoading(true), then the setLoading(false) of the
                  \* catch block or of the caller's finally
                  /\ btnDisabled' = IF rec.pc = "failed" \/ fallback
                                      THEN FALSE ELSE TRUE
                  \* resetUI(), then the error message of the catch block
                  /\ display' = IF rec.pc = "failed" THEN "error" ELSE "initial"

\* form submit handler up to its first await (lines 312-326)
Submit ==
    /\ UserMayStart
    /\ ~btnDisabled /\ ~step1Hidden /\ pcSubmit = "idle"
    /\ currentResearchedText' = ""
    /\ IF apiKey
         THEN pcSubmit' = "research" /\ btnDisabled' = TRUE
         \* both getGenAIClient() calls throw into their catch blocks; the
         \* finally block runs setLoading(false)
         ELSE pcSubmit' = "idle" /\ btnDisabled' = FALSE
    /\ UNCHANGED <<apiKey, step1Hidden, step2Hidden, step3Hidden,
                   suggestedOutlines, outlineCards, selectedOutline,
                   suggestedDirections, directionCards, selectedDirection,
                   pcDirections, timers, run, storeVars, retry, articleVars, auxVars>>

\* the research call ends (lines 326-340); the outline call starts
ResearchResolves ==
    /\ pcSubmit = "research"
    /\ \E outcome \in {"fail", "empty", "text"} :
         currentResearchedText' =
            CASE outcome = "text" -> "research"
              [] outcome = "empty" -> ""
              [] OTHER -> currentResearchedText
    /\ IF apiKey
         THEN pcSubmit' = "outlines" /\ btnDisabled' = TRUE
         ELSE pcSubmit' = "idle" /\ btnDisabled' = FALSE
    /\ UNCHANGED <<apiKey, step1Hidden, step2Hidden, step3Hidden,
                   suggestedOutlines, outlineCards, selectedOutline,
                   suggestedDirections, directionCards, selectedDirection,
                   pcDirections, timers, run, storeVars, retry, articleVars, auxVars>>

\* a failure branch that shows the outline pane all the same
OutlinesFailShowsStep ==
    /\ pcSubmit = "outlines"
    /\ pcSubmit' = "idle"
    /\ btnDisabled' = FALSE
    /\ step1Hidden' = TRUE
    /\ step2Hidden' = FALSE
    /\ UNCHANGED <<apiKey, step3Hidden,
                   suggestedOutlines, outlineCards, selectedOutline,
                   suggestedDirections, directionCards, selectedDirection,
                   currentResearchedText, pcDirections, timers, run,
                   storeVars, retry, articleVars, auxVars>>

\* the outline call fails or its response does not parse (lines 414-419)
OutlinesFail ==
    /\ pcSubmit = "outlines"
    /\ pcSubmit' = "idle"
    /\ btnDisabled' = FALSE
    /\ UNCHANGED <<apiKey, step1Hidden, step2Hidden, step3Hidden,
                   suggestedOutlines, outlineCards, selectedOutline,
                   suggestedDirections, directionCards, selectedDirection,
                   currentResearchedText, pcDirections, timers, run,
                   storeVars, retry, articleVars, auxVars>>

\* the outline call returns n outlines (lines 409-413, 417-419)
OutlinesResolve ==
    /\ pcSubmit = "outlines"
    /\ \E n \in 0..MaxOutlines :
         /\ suggestedOutlines' = n
         /\ outlineCards' = n
    /\ step1Hidden' = TRUE
    /\ step2Hidden' = FALSE
    /\ pcSubmit' = "idle"
    /\ btnDisabled' = FALSE
    /\ UNCHANGED <<apiKey, step3Hidden, selectedOutline,
                   suggestedDirections, directionCards, selectedDirection,
                   currentResearchedText, pcDirections, timers, run,
                   storeVars, retry, articleVars, auxVars>>

\* click on an outline card (lines 1091-1096) and generateCreativeDirections
\* up to its await (lines 1102-1138)
OutlineClick ==
    /\ UserMayStart /\ FreeRun # 0
    /\ ~step2Hidden /\ pcDirections = "idle"
    /\ \E o \in 1..outlineCards :
         LET chosen == IF o <= suggestedOutlines THEN o ELSE 0
         IN  /\ selectedOutline' = chosen
             /\ IF apiKey
                  THEN /\ pcDirections' = "call"
                       /\ btnDisabled' = TRUE
                       /\ step2Hidden' = TRUE
                       /\ UNCHANGED <<step3Hidden, run, display>>
                  \* getGenAIClient() throws: the catch block falls back
                  ELSE /\ pcDirections' = "idle"
                       /\ CallAssemblyLine(chosen, TRUE, TRUE)
    /\ UNCHANGED <<apiKey, step1Hidden, suggestedOutlines, outlineCards,
                   suggestedDirections, directionCards, selectedDirection,
                   currentResearchedText, pcSubmit, timers,
                   articles, imageDb, currentArticle, rendering, retry, articleVars, auxVars>>

\* the direction call fails: fallback to direct article generation, then
\* finally setLoading(false) (lines 1143-1149)
DirectionsFail ==
    /\ pcDirections = "call"
    /\ pcDirections' = "idle"
    /\ CallAssemblyLine(selectedOutline, step2Hidden, TRUE)
    /\ UNCHANGED <<apiKey, step1Hidden, suggestedOutlines, outlineCards,
                   selectedOutline, suggestedDirections, directionCards,
                   selectedDirection, currentResearchedText, pcSubmit, timers,
                   articles, imageDb, currentArticle, rendering, retry, articleVars, auxVars>>

\* the direction call returns n directions (lines 1139-1142, 1147-1149)
DirectionsResolve ==
    /\ pcDirections = "call"
    /\ \E n \in 0..MaxDirections :
         /\ suggestedDirections' = n
         /\ directionCards' = n
    /\ step3Hidden' = FALSE
    /\ pcDirections' = "idle"
    /\ btnDisabled' = FALSE
    /\ UNCHANGED <<apiKey, step1Hidden, step2Hidden, suggestedOutlines,
                   outlineCards, selectedOutline, selectedDirection,
                   currentResearchedText, pcSubmit, timers, run,
                   storeVars, retry, articleVars, auxVars>>

\* click on a direction card (lines 1165-1172)
DirectionClick ==
    /\ UserMayStart /\ FreeRun # 0
    /\ ~step3Hidden
    /\ \E d \in 1..directionCards :
         selectedDirection' = IF d <= suggestedDirections THEN d ELSE 0
    /\ timers' = timers + 1
    /\ UNCHANGED <<apiKey, btnDisabled, step1Hidden, step2Hidden, step3Hidden,
                   suggestedOutlines, outlineCards, selectedOutline,
                   suggestedDirections, directionCards,
                   currentResearchedText, pcSubmit, pcDirections, run,
                   storeVars, retry, articleVars, auxVars>>

\* the 300 ms timer of a direction card fires (lines 1169-1171)
DirectionTimerFires ==
    /\ timers > 0
    /\ timers' = timers - 1
    /\ CallAssemblyLine(selectedOutline, step2Hidden, FALSE)
    /\ UNCHANGED <<apiKey, step1Hidden, suggestedOutlines, outlineCards,
                   selectedOutline, suggestedDirections, directionCards,
                   selectedDirection, currentResearchedText, pcSubmit,
                   pcDirections, articles, imageDb, currentArticle,
                   rendering, retry, articleVars, auxVars>>

\* backToFormBtn click (lines 421-428)
BackToForm ==
    /\ ~step2Hidden
    /\ step1Hidden' = FALSE
    /\ step2Hidden' = TRUE
    /\ step3Hidden' = TRUE
    /\ suggestedOutlines' = 0
    /\ selectedOutline' = 0
    /\ currentResearchedText' = ""
    /\ UNCHANGED <<apiKey, btnDisabled, outlineCards, suggestedDirections,
                   directionCards, selectedDirection, pcSubmit, pcDirections,
                   timers, run, storeVars, retry, articleVars, auxVars>>

\* backToOutlinesBtn click (lines 429-434)
BackToOutlines ==
    /\ ~step3Hidden
    /\ step2Hidden' = FALSE
    /\ step3Hidden' = TRUE
    /\ suggestedDirections' = 0
    /\ selectedDirection' = 0
    /\ UNCHANGED <<apiKey, btnDisabled, step1Hidden, suggestedOutlines,
                   outlineCards, selectedOutline, directionCards,
                   currentResearchedText, pcSubmit, pcDirections, timers, run,
                   storeVars, retry, articleVars, auxVars>>

\* switchMode('create') (lines 944-948)
SwitchModeCreate ==
    /\ step1Hidden \/ ~step2Hidden \/ ~step3Hidden
    /\ step1Hidden' = FALSE
    /\ step2Hidden' = TRUE
    /\ step3Hidden' = TRUE
    /\ UNCHANGED <<apiKey, btnDisabled, suggestedOutlines, outlineCards,
                   selectedOutline, suggestedDirections, directionCards,
                   selectedDirection, currentResearchedText, pcSubmit,
                   pcDirections, timers, run, storeVars, retry, articleVars, auxVars>>

\* clearApiKeyBtn click: clearApiKey(), checkApiKeyOnLoad() (lines 886-891)
ClearApiKey ==
    /\ apiKey' = FALSE
    /\ btnDisabled' = TRUE
    /\ UNCHANGED <<step1Hidden, step2Hidden, step3Hidden,
                   suggestedOutlines, outlineCards, selectedOutline,
                   suggestedDirections, directionCards, selectedDirection,
                   currentResearchedText, pcSubmit, pcDirections, timers, run,
                   storeVars, retry, articleVars, auxVars>>

\* saveApiKeyBtn click, the validation call succeeded: saveApiKey(key),
\* checkApiKeyOnLoad() (lines 869-874)
SaveApiKey ==
    /\ apiKey' = TRUE
    /\ btnDisabled' = FALSE
    /\ UNCHANGED <<step1Hidden, step2Hidden, step3Hidden,
                   suggestedOutlines, outlineCards, selectedOutline,
                   suggestedDirections, directionCards, selectedDirection,
                   currentResearchedText, pcSubmit, pcDirections, timers, run,
                   storeVars, retry, articleVars, auxVars>>

\* the stored assets of an article
Assets(item) == [coverImage |-> item.coverImage, imageMap |-> item.imageMap]

\* mutant of Unshift: the new record is put behind the oldest one
UnshiftBehind(list, item) ==
    LET l == list \o <<item>>
    IN  IF Len(l) > HistoryCap THEN SubSeq(l, 1, Len(l) - 1) ELSE l

\* articles.unshift(item) and the cap of addArticleToHistory
Unshift(list, item) ==
    LET l == <<item>> \o list
    IN  IF Len(l) > HistoryCap THEN SubSeq(l, 1, Len(l) - 1) ELSE l

\* mutant of RunStep: the catch block stores what the run has so far
RunStepSavesPartial(r, rec, shown) ==
    /\ run' = [run EXCEPT ![r] = rec]
    /\ display' = IF rec.pc = "failed" THEN "error" ELSE shown
    /\ btnDisabled' = IF rec.pc = "failed" THEN FALSE ELSE btnDisabled
    /\ articles' = IF rec.pc = "failed"
                     THEN Unshift(articles, [id |-> r, md |-> rec.md])
                     ELSE articles
    /\ UNCHANGED imageDb

\* the variables a turn of steps 1 and 2 of run r writes when it leaves the
\* run in state rec: the catch block of generateArticleAssemblyLine shows
\* the error and runs setLoading(false); nothing is stored
RunStep(r, rec, shown) ==
    /\ run' = [run EXCEPT ![r] = rec]
    /\ display' = IF rec.pc = "failed" THEN "error" ELSE shown
    /\ btnDisabled' = IF rec.pc = "failed" THEN FALSE ELSE btnDisabled
    /\ UNCHANGED <<articles, imageDb>>

\* step1_generateCoreText throws: the streaming call failed after its
\* retries, or the accumulated text is empty (lines 1365-1367, 1383-1386)
CoreFails(r) ==
    /\ run[r].pc = "core"
    /\ \E reason \in {"rejected", "empty text"} :
         RunStep(r, RunFailed(run[r], "core", reason), display)
    /\ UNCHANGED <<apiKey, step1Hidden, step2Hidden, step3Hidden,
                   suggestedOutlines, outlineCards, selectedOutline,
                   suggestedDirections, directionCards, selectedDirection,
                   currentResearchedText, pcSubmit, pcDirections, timers,
                   currentArticle, rendering, retry, articleVars, auxVars>>

\* step1_generateCoreText returns the core markdown; the raw text is shown
\* and step 2 starts (lines 1220-1225)
CoreResolves(r) ==
    /\ run[r].pc = "core"
    /\ RunStep(r, EnterDecorate(run[r], apiKey), "stream")
    /\ UNCHANGED <<apiKey, step1Hidden, step2Hidden, step3Hidden,
                   suggestedOutlines, outlineCards, selectedOutline,
                   suggestedDirections, directionCards, selectedDirection,
                   currentResearchedText, pcSubmit, pcDirections, timers,
                   currentArticle, rendering, retry, articleVars, auxVars>>

\* step2_decorateMarkdown throws: the call failed, the response did not
\* parse or lacks one of the three required fields (lines 1436-1447)
DecorateFails(r) ==
    /\ run[r].pc = "decorate"
    /\ \E reason \in {"rejected", "missing field"} :
         RunStep(r, RunFailed(run[r], "decorate", reason), display)
    /\ UNCHANGED <<apiKey, step1Hidden, step2Hidden, step3Hidden,
                   suggestedOutlines, outlineCards, selectedOutline,
                   suggestedDirections, directionCards, selectedDirection,
                   currentResearchedText, pcSubmit, pcDirections, timers,
                   currentArticle, rendering, retry, articleVars, auxVars>>

\* step2_decorateMarkdown returns the decorated markdown; step 3 starts
\* (lines 1227-1252)
DecorateResolves(r, out) ==
    /\ run[r].pc = "decorate"
    /\ \E md \in out.md :
         RunStep(r, EnterImages(run[r], md, apiKey), display)
    /\ UNCHANGED <<apiKey, step1Hidden, step2Hidden, step3Hidden,
                   suggestedOutlines, outlineCards, selectedOutline,
                   suggestedDirections, directionCards, selectedDirection,
                   currentResearchedText, pcSubmit, pcDirections, timers,
                   currentArticle, rendering, retry, articleVars, auxVars>>

\* generateAndStoreImages: the call of task k ends, with an image or (after
\* its retries, or with an empty response) in the per-task catch block; the
\* next task's call starts, or the map is returned and finalizeArticle runs
\* up to its first await (lines 1455-1481, 1633-1655)
ImageResolves(r, out) ==
    /\ run[r].pc = "images"
    /\ \E outcome \in out.image :
         LET tasks == AllImageTasks(run[r].md)
             k == run[r].k
             r1 == [run[r] EXCEPT !.images = Put(@, tasks[k], outcome)]
         IN  IF k < Len(tasks)
               THEN run' = [run EXCEPT ![r] =
                              [r1 EXCEPT !.k = k + 1,
                                         !.calls = Append(@, "images"),
                                         !.imageCalls = Append(@, tasks[k + 1])]]
               ELSE run' = [run EXCEPT ![r] =
                              EnterStage(r1, "faq", apiKey, r, selectedDirection)]
    /\ UNCHANGED <<flowVars, storeVars, retry, articleVars, auxVars>>

\* generateFaqSection returns (lines 1512-1524, 1654-1658)
FaqResolves(r, out) ==
    /\ run[r].pc = "faq"
    /\ \E outcome \in out.faq :
         LET r1 == [run[r] EXCEPT !.faqs = outcome,
                      !.stageFailed = IF outcome = "undefined"
                                        THEN @ \cup {"faq"} ELSE @]
         IN  run' = [run EXCEPT ![r] =
                       EnterStage(r1, "performance", apiKey, r, selectedDirection)]
    /\ UNCHANGED <<flowVars, storeVars, retry, articleVars, auxVars>>

\* analyzeArticlePerformance returns (lines 1574-1586, 1658-1662)
PerformanceResolves(r, out) ==
    /\ run[r].pc = "performance"
    /\ \E outcome \in out.performance :
         LET r1 == [run[r] EXCEPT !.performance = outcome,
                      !.stageFailed = IF outcome = "undefined"
                                        THEN @ \cup {"performance"} ELSE @]
         IN  run' = [run EXCEPT ![r] =
                       EnterStage(r1, "enhancements", apiKey, r, selectedDirection)]
    /\ UNCHANGED <<flowVars, storeVars, retry, articleVars, auxVars>>

\* generateEnhancements returns; newItem is built and addArticleToHistory
\* awaits saveImagesToDb (lines 1618-1629, 1662-1698)
EnhancementsResolves(r, out) ==
    /\ run[r].pc = "enhancements"
    /\ \E outcome \in out.enhancements :
         LET r1 == [run[r] EXCEPT !.enhancements = outcome,
                      !.stageFailed = IF outcome = "empty"
                                        THEN @ \cup {"enhancements"} ELSE @]
         IN  run' = [run EXCEPT ![r] =
                       EnterStage(r1, "save", apiKey, r, selectedDirection)]
    /\ UNCHANGED <<flowVars, storeVars, retry, articleVars, auxVars>>

\* the asset store after addArticleToHistory: the new entry is written, the
\* entry of a popped article is deleted
StoreAfterAdd(list, item) ==
    LET db == Put(imageDb, item.id, Assets(item))
    IN  IF Len(list) + 1 > HistoryCap
          THEN Without(db, list[Len(list)].id)
          ELSE db

\* the performance object has the fields of the AI analysis / has userInput
HasQualityScores(performance) ==
    performance \in {"analysis", "analysis+userInput"}
HasUserInput(performance) ==
    performance \in {"userInput", "analysis+userInput"}

\* displayPerformanceAnalysis throws: past the `!article.performance` test
\* it calls Object.entries(qualityScores) (lines 2025-2028, 2055-2062)
DisplayPerformanceAnalysisThrows(article) ==
    article.performance # "undefined" /\ ~HasQualityScores(article.performance)

\* what the page shows when renderArticle has drawn the article: the whole
\* article, or the part drawn before the exception
Drawn(article) ==
    IF DisplayPerformanceAnalysisThrows(article) THEN "broken" ELSE "article"

\* renderArticle(article) up to its first await or, when article.html is
\* set, to its end (lines 1787-1832); `shown` is what the page shows while
\* the call is suspended, `pending` the calls suspended so far
RenderArticle(article, shown, pending) ==
    IF article.html = <<>>
      THEN LET a == [article EXCEPT !.html = RenderMarkdownToHtml(article.md)]
           IN  /\ currentArticle' = a
               /\ rendering' = pending \cup {a}
               /\ display' = shown
      ELSE /\ currentArticle' = article
           /\ rendering' = pending
           /\ display' = Drawn(article)

\* mutant of SaveResolves: finalizeArticle returns without setLoading(false)
SaveResolvesKeepsLoading(r) ==
    /\ run[r].pc = "saving"
    /\ imageDb' = StoreAfterAdd(articles, run[r].item)
    /\ articles' = Unshift(articles, WithoutImages(run[r].item))
    /\ RenderArticle(run[r].item, display, rendering)
    /\ run' = [run EXCEPT ![r].pc = "complete"]
    /\ UNCHANGED <<btnDisabled, apiKey, step1Hidden, step2Hidden, step3Hidden,
                   suggestedOutlines, outlineCards, selectedOutline,
                   suggestedDirections, directionCards, selectedDirection,
                   currentResearchedText, pcSubmit, pcDirections, timers,
                   retry, articleVars, auxVars>>

\* saveImagesToDb of addArticleToHistory resolves: the record without its
\* assets goes to the head of the history; renderArticle(newItem) runs up to
\* `await updateArticleInHistory(article)`; setLoading(false)
\* (lines 1698-1701, 2416, 1787-1830)
SaveResolves(r) ==
    /\ run[r].pc = "saving"
    /\ imageDb' = StoreAfterAdd(articles, run[r].item)
    /\ articles' = Unshift(articles, WithoutImages(run[r].item))
    /\ RenderArticle(run[r].item, display, rendering)
    /\ run' = [run EXCEPT ![r].pc = "complete"]
    /\ btnDisabled' = FALSE
    /\ UNCHANGED <<apiKey, step1Hidden, step2Hidden, step3Hidden,
                   suggestedOutlines, outlineCards, selectedOutline,
                   suggestedDirections, directionCards, selectedDirection,
                   currentResearchedText, pcSubmit, pcDirections, timers,
                   retry, articleVars, auxVars>>

\* the history with the record of the same id replaced
Replace(list, item) ==
    [x \in 1..Len(list) |-> IF list[x].id = item.id THEN item ELSE list[x]]

\* mutant of UpdateArticleInHistory: the assets are written, the metadata
\* list is left alone
UpdateAssetsOnly(article) ==
    /\ imageDb' = Put(imageDb, article.id, Assets(article))
    /\ articles' = articles

\* an update that puts the whole article into the list
UpdateWithImages(article) ==
    /\ imageDb' = Put(imageDb, article.id, Assets(article))
    /\ articles' = Replace(articles, article)

\* updateArticleInHistory(article): the assets are written, the record of
\* the same id, if there is one, is replaced (line 2417)
UpdateArticleInHistory(article) ==
    /\ imageDb' = Put(imageDb, article.id, Assets(article))
    /\ articles' = Replace(articles, WithoutImages(article))

\* updateArticleInHistory(article) of renderArticle resolves and the article
\* is drawn (lines 1827-1830, 1831-2019)
RenderResumes ==
    \E a \in rendering :
        /\ UpdateArticleInHistory(a)
        /\ rendering' = rendering \ {a}
        /\ display' = Drawn(a)
        /\ UNCHANGED <<flowVars, run, currentArticle, retry, articleVars, auxVars>>

\* the steps of the interactive flow
FlowNext ==
    \/ Submit \/ ResearchResolves \/ OutlinesFail \/ OutlinesResolve
    \/ OutlineClick \/ DirectionsFail \/ DirectionsResolve
    \/ DirectionClick \/ DirectionTimerFires
    \/ BackToForm \/ BackToOutlines \/ SwitchModeCreate
    \/ ClearApiKey \/ SaveApiKey

\* one assembly run with every outcome of its calls
Next ==
    \/ FlowNext
    \/ \E r \in Runs : CoreFails(r)
    \/ \E r \in Runs : CoreResolves(r)
    \/ \E r \in Runs : DecorateFails(r)
    \/ \E r \in Runs : DecorateResolves(r, AnyOutcome)
    \/ \E r \in Runs : ImageResolves(r, AnyOutcome)
    \/ \E r \in Runs : FaqResolves(r, AnyOutcome)
    \/ \E r \in Runs : PerformanceResolves(r, AnyOutcome)
    \/ \E r \in Runs : EnhancementsResolves(r, AnyOutcome)
    \/ \E r \in Runs : SaveResolves(r)
    \/ RenderResumes

Spec == Init /\ [][Next]_vars

\* consecutive runs of the flow, the calls after the decoration succeeding
NextFlow ==
    \/ FlowNext
    \/ \E r \in Runs : CoreFails(r)
    \/ \E r \in Runs : CoreResolves(r)
    \/ \E r \in Runs : DecorateFails(r)
    \/ \E r \in Runs : DecorateResolves(r, GoodOutcome)
    \/ \E r \in Runs : ImageResolves(r, GoodOutcome)
    \/ \E r \in Runs : FaqResolves(r, GoodOutcome)
    \/ \E r \in Runs : PerformanceResolves(r, GoodOutcome)
    \/ \E r \in Runs : EnhancementsResolves(r, GoodOutcome)
    \/ \E r \in Runs : SaveResolves(r)
    \/ RenderResumes

SpecFlow == InitFlow /\ [][NextFlow]_vars

----------------------------------------------------------------------------
(* Operations on stored articles                                            *)

\* articles in the history at page load
MaxStored == 1

\* markdown the editor or the proofreading call can produce
EditedSamples == { <<"t", "&">>, <<"IC", "{", "q", "}", "]", "t">> }

\* an article as an assembly run stores it: `present` tells whether the
\* optional parts (images, FAQ, enhancements, direction) are there,
\* `rendered` whether renderArticle has written the html back
StoredItem(id, md, present, performance, rendered) ==
    LET tasks == AllImageTasks(md)
        rec == [IdleRun EXCEPT
                  !.md = md,
                  !.images = [key \in {tasks[x] : x \in 1..Len(tasks)} |->
                                 IF present THEN "img" ELSE "error"],
                  !.faqs = IF present THEN "faqs" ELSE "undefined",
                  !.performance = performance,
                  !.enhancements = IF present THEN "bundle" ELSE "empty"]
        item == NewItem(rec, id, IF present THEN 1 ELSE 0)
    IN  IF rendered THEN [item EXCEPT !.html = RenderMarkdownToHtml(md)]
        ELSE item

StoredShapes ==
    {<<md, present, performance, rendered>> :
        md \in DecoratedSamples, present \in BOOLEAN,
        performance \in {"analysis", "undefined"}, rendered \in BOOLEAN}

\* page load with a history that earlier assembly runs left in localStorage
\* and IndexedDB
InitArticle ==
    /\ RetryIdle /\ FlowIdle(TRUE) /\ run = <<>> /\ HandlersIdle
    /\ AuxIdle
    /\ currentArticle = NoArticle /\ display = "initial" /\ rendering = {}
    /\ \E shape \in [1..MaxStored -> StoredShapes] :
         LET item(x) == StoredItem(x, shape[x][1], shape[x][2], shape[x][3],
                                   shape[x][4])
         IN  /\ articles = [x \in 1..MaxStored |-> WithoutImages(item(x))]
             /\ imageDb = [x \in 1..MaxStored |-> Assets(item(x))]

\* { ...articleStub, ...(await getImagesFromDb(id)) }: the stored assets, or
\* none when the store has no record
Full(stub) ==
    LET assets == IF stub.id \in DOMAIN imageDb THEN imageDb[stub.id]
                  ELSE [coverImage |-> "undefined", imageMap |-> EmptyMap]
    IN  [f \in (DOMAIN stub) \cup {"coverImage", "imageMap"} |->
            IF f \in {"coverImage", "imageMap"} THEN assets[f] ELSE stub[f]]

\* a write to a field of the object currentArticle: the renderArticle call
\* suspended on that object sees it too
MutateCurrent(new) ==
    /\ currentArticle' = new
    /\ rendering' = {IF a = currentArticle THEN new ELSE a : a \in rendering}

\* click on .edit-btn of the history list (lines 2456-2471)
OpenArticle ==
    /\ UserMayStart
    /\ \E x \in 1..Len(articles) :
         RenderArticle(Full(articles[x]), "loading", rendering)
    /\ step1Hidden' = FALSE /\ step2Hidden' = TRUE /\ step3Hidden' = TRUE
    /\ UNCHANGED <<apiKey, btnDisabled, suggestedOutlines, outlineCards,
                   selectedOutline, suggestedDirections, directionCards,
                   selectedDirection, currentResearchedText, pcSubmit,
                   pcDirections, timers, run, articles, imageDb,
                   retry, articleVars, auxVars>>

\* saveEditButton click up to its await (lines 435-441)
EditSaveClick ==
    /\ UserMayStart
    /\ currentArticle # NoArticle /\ display \in {"article", "broken"}
    /\ pcEdit = <<>>
    /\ \E md \in EditedSamples : pcEdit' = <<md>>
    /\ UNCHANGED <<pipelineVars, retry, auxVars, currentPerformanceArticleId,
                   pcProofread, pcFactCheck, pcAudit>>
    /\ promptArticle' = [promptArticle EXCEPT !.edit = currentArticle.id]

\* mutant of EditedArticle: the html of the old markdown is kept
EditedArticleKeepsHtml(article, md, performance) ==
    [article EXCEPT !.md = md, !.performance = performance,
                    !.factCheck = "unchecked"]

\* updatedArticle of the saveEditButton handler (line 445)
EditedArticle(article, md, performance) ==
    [article EXCEPT !.md = md, !.html = <<>>, !.performance = performance,
                    !.factCheck = "unchecked"]

\* analyzeArticlePerformance of the saveEditButton handler returns; the
\* article is stored and rendered (lines 441-451)
EditSaveResolves ==
    /\ pcEdit # <<>>
    /\ \E outcome \in {"analysis", "undefined"} :
         LET newPerformance ==
                 IF outcome = "analysis" /\ HasUserInput(currentArticle.performance)
                   THEN "analysis+userInput" ELSE outcome
             updated == EditedArticle(currentArticle, pcEdit[1], newPerformance)
         IN  /\ UpdateArticleInHistory(updated)
             /\ RenderArticle(updated, display, rendering)
    /\ pcEdit' = <<>>
    /\ UNCHANGED <<flowVars, run, retry, auxVars, currentPerformanceArticleId,
                   pcProofread, pcFactCheck, pcAudit>>
    /\ promptArticle' = [promptArticle EXCEPT !.edit = 0]

\* proofreadButton click up to its await (lines 636-654)
ProofreadClick ==
    /\ UserMayStart
    /\ currentArticle # NoArticle /\ display \in {"article", "broken"}
    /\ pcProofread = "idle"
    /\ pcProofread' = IF apiKey THEN "call" ELSE "idle"
    /\ UNCHANGED <<pipelineVars, retry, auxVars, currentPerformanceArticleId,
                   pcEdit, pcFactCheck, pcAudit>>
    /\ promptArticle' = [promptArticle EXCEPT !.proofread = IF apiKey THEN currentArticle.id ELSE 0]

\* the proofreading call fails or answers with blank text (lines 656-669)
ProofreadFails ==
    /\ pcProofread = "call"
    /\ pcProofread' = "idle"
    /\ UNCHANGED <<pipelineVars, retry, auxVars, currentPerformanceArticleId,
                   pcEdit, pcFactCheck, pcAudit>>
    /\ promptArticle' = [promptArticle EXCEPT !.proofread = 0]

\* the proofreading call answers: the article is stored and rendered with
\* the new markdown (lines 655-662)
ProofreadResolves ==
    /\ pcProofread = "call"
    /\ \E md \in EditedSamples :
         LET updated == [currentArticle EXCEPT !.md = md, !.html = <<>>]
         IN  /\ UpdateArticleInHistory(updated)
             /\ RenderArticle(updated, display, rendering)
    /\ pcProofread' = "idle"
    /\ UNCHANGED <<flowVars, run, retry, auxVars, currentPerformanceArticleId,
                   pcEdit, pcFactCheck, pcAudit>>
    /\ promptArticle' = [promptArticle EXCEPT !.proofread = 0]


\* factCheckButton click up to its await (lines 457-500)
FactCheckClick ==
    /\ UserMayStart
    /\ currentArticle # NoArticle /\ display \in {"article", "broken"}
    /\ pcFactCheck = "idle"
    /\ pcFactCheck' = IF apiKey THEN "call" ELSE "idle"
    /\ UNCHANGED <<pipelineVars, retry, auxVars, currentPerformanceArticleId,
                   pcEdit, pcProofread, pcAudit>>
    /\ promptArticle' = [promptArticle EXCEPT !.factCheck = IF apiKey THEN currentArticle.id ELSE 0]

\* the fact-check call fails or its answer does not parse (lines 524-531)
FactCheckFails ==
    /\ pcFactCheck = "call"
    /\ pcFactCheck' = "idle"
    /\ UNCHANGED <<pipelineVars, retry, auxVars, currentPerformanceArticleId,
                   pcEdit, pcProofread, pcAudit>>
    /\ promptArticle' = [promptArticle EXCEPT !.factCheck = 0]

\* the fact-check call answers: currentArticle.factCheck is set and the
\* article stored, the results are shown (lines 508-523)
FactCheckResolves ==
    /\ pcFactCheck = "call"
    /\ LET checked == [currentArticle EXCEPT !.factCheck = "checked"]
       IN  /\ MutateCurrent(checked)
           /\ UpdateArticleInHistory(checked)
    /\ pcFactCheck' = "idle"
    /\ UNCHANGED <<flowVars, run, display, retry, auxVars,
                   currentPerformanceArticleId, pcEdit, pcProofread, pcAudit>>
    /\ promptArticle' = [promptArticle EXCEPT !.factCheck = 0]

\* saveScheduleBtn click with a date chosen (lines 619-629)
SaveSchedule ==
    /\ UserMayStart
    /\ currentArticle # NoArticle
    /\ LET scheduled == [currentArticle EXCEPT !.scheduledAt = "date"]
       IN  /\ MutateCurrent(scheduled)
           /\ UpdateArticleInHistory(scheduled)
    /\ UNCHANGED <<flowVars, run, display, retry, articleVars, auxVars>>

\* removeScheduleBtn click (lines 630-635)
RemoveSchedule ==
    /\ UserMayStart
    /\ currentArticle # NoArticle
    /\ LET scheduled == [currentArticle EXCEPT !.scheduledAt = "undefined"]
       IN  /\ MutateCurrent(scheduled)
           /\ UpdateArticleInHistory(scheduled)
    /\ UNCHANGED <<flowVars, run, display, retry, articleVars, auxVars>>

\* openPerformanceModal(articleId), from the history list or from the
\* article shown (lines 2289-2302)
OpenPerformanceModal ==
    /\ UserMayStart
    /\ \E x \in 1..Len(articles) :
         currentPerformanceArticleId' = articles[x].id
    /\ UNCHANGED <<pipelineVars, retry, auxVars, pcEdit, pcProofread, pcFactCheck,
                   pcAudit, promptArticle>>

\* fullArticle.performance.userInput = {...} (lines 749-755): a missing
\* performance object is replaced by one that holds the user's input only
WithUserInput(performance) ==
    IF HasQualityScores(performance) THEN "analysis+userInput" ELSE "userInput"

\* savePerformanceBtn click (lines 740-763); the performance object, when
\* there was one, is shared with the other copies of the article
SavePerformance ==
    /\ UserMayStart
    /\ currentPerformanceArticleId # 0
    /\ \E x \in 1..Len(articles) :
         /\ articles[x].id = currentPerformanceArticleId
         /\ LET fullArticle == [Full(articles[x]) EXCEPT
                                   !.performance = WithUserInput(@)]
                Shared(a) == IF a.id = fullArticle.id /\ a.performance # "undefined"
                               THEN [a EXCEPT !.performance = WithUserInput(@)]
                               ELSE a
                pending == {Shared(a) : a \in rendering}
            IN  /\ UpdateArticleInHistory(fullArticle)
                /\ IF currentArticle.id = fullArticle.id
                     THEN RenderArticle(fullArticle, display, pending)
                     ELSE /\ rendering' = pending
                          /\ UNCHANGED <<currentArticle, display>>
    /\ currentPerformanceArticleId' = 0
    /\ UNCHANGED <<flowVars, run, retry, auxVars, pcEdit, pcProofread, pcFactCheck,
                   pcAudit, promptArticle>>

\* handleContentAudit(articleId) up to its await (lines 2549-2595)
AuditClick ==
    /\ UserMayStart
    /\ pcAudit = <<>>
    /\ apiKey
    /\ \E x \in 1..Len(articles) : pcAudit' = <<articles[x]>>
    /\ UNCHANGED <<pipelineVars, retry, auxVars, currentPerformanceArticleId,
                   pcEdit, pcProofread, pcFactCheck, promptArticle>>

\* the audit call fails or its answer does not parse (lines 2633-2639)
AuditFails ==
    /\ pcAudit # <<>>
    /\ pcAudit' = <<>>
    /\ UNCHANGED <<pipelineVars, retry, auxVars, currentPerformanceArticleId,
                   pcEdit, pcProofread, pcFactCheck, promptArticle>>

\* the audit call answers: the record read at the start gets its
\* lastCheckedForUpdate and is stored (lines 2597-2631)
AuditResolves ==
    /\ pcAudit # <<>>
    /\ UpdateArticleInHistory(
          [Full(pcAudit[1]) EXCEPT !.lastCheckedForUpdate = "date"])
    /\ pcAudit' = <<>>
    /\ UNCHANGED <<flowVars, run, currentArticle, display, rendering, retry, auxVars,
                   currentPerformanceArticleId, pcEdit, pcProofread,
                   pcFactCheck, promptArticle>>

NextArticle ==
    \/ OpenArticle \/ RenderResumes
    \/ EditSaveClick \/ EditSaveResolves
    \/ ProofreadClick \/ ProofreadFails \/ ProofreadResolves
    \/ FactCheckClick \/ FactCheckFails \/ FactCheckResolves
    \/ SaveSchedule \/ RemoveSchedule
    \/ OpenPerformanceModal \/ SavePerformance
    \/ AuditClick \/ AuditFails \/ AuditResolves

\* the operations on the articles of a stored history
SpecArticle == InitArticle /\ [][NextArticle]_vars

----------------------------------------------------------------------------
(* Claims about the assembly pipeline                                       *)

\* C1: when step1_generateCoreText or step2_decorateMarkdown throws, the run
\* ends failed and nothing of it is stored: no step of a run up to that
\* failure changes the history `articles` or the asset store, and neither
\* holds a record under the id of the failed run.
C1_FailedRunStoresNothing ==
    /\ [](\A r \in Runs :
            run[r].failedAt \in {"core", "decorate"} =>
                /\ run[r].pc = "failed"
                /\ run[r].item = NoArticle
                /\ \A x \in 1..Len(articles) : articles[x].id # r
                /\ r \notin DOMAIN imageDb)
    /\ [][\A r \in Runs :
            (run'[r] # run[r] /\ run'[r].pc \in {"core", "decorate", "failed"}
                /\ run'[r].failedAt \in {"none", "core", "decorate"})
            => UNCHANGED <<articles, imageDb>>]_vars

\* a second run fails in the decoration stage after the first run stored
\* its article: the history and the asset store hold the first article only
C1_Witness ==
    /\ Len(articles) = 1 /\ articles[1].id = 1 /\ DOMAIN imageDb = {1}
    /\ run[1].pc = "complete" /\ rendering = {}
    /\ run[2].pc = "failed" /\ run[2].failedAt = "decorate"
    /\ run[2].reason = "missing field"

\* C2: a fatal failure halts the run.  After core-text generation ended
\* with an empty text the run has made no call but the core-text call; after
\* the decoration result lacked a required field it has made the core-text
\* and the decoration call only.  A failed run takes no further step.
C2_FatalFailureHalts ==
    /\ [](\A r \in Runs :
            /\ (run[r].failedAt = "core" /\ run[r].reason = "empty text")
                  => run[r].calls = <<"core">> /\ run[r].progress = <<0>>
            /\ (run[r].failedAt = "decorate" /\ run[r].reason = "missing field")
                  => run[r].calls = <<"core", "decorate">>
                     /\ run[r].progress = <<0, 1>>)
    /\ [][\A r \in Runs : run[r].pc = "failed" => run'[r] = run[r]]_vars

\* one run ended with an empty core text (a later state of the flow: the
\* form is shown again)
C2_Witness ==
    /\ run[1].pc = "failed" /\ run[1].failedAt = "core"
    /\ run[1].reason = "empty text"
    /\ ~step1Hidden /\ pcSubmit = "outlines"

\* C3: the Article persisted by a run that was started by the fallback of a
\* failed creative-direction stage has no creativeDirection, also when the
\* run follows an earlier run in which a direction was selected.
C3_FallbackArticleHasNoDirection ==
    \A r \in Runs :
        (run[r].fallback /\ run[r].pc = "complete") =>
            \A x \in 1..Len(articles) :
                articles[x].id = r => articles[x].creativeDirection = 0

\* C4: generateAndStoreImages makes its calls one at a time in the order of
\* the task list, never propagates a failure (the assembly run does not fail
\* in the image stage), and the map it returns has an entry for every task
\* key, an image payload or the sentinel "error".
C4_ImagesNeverAbortTheRun ==
    \A r \in Runs :
        LET tasks == AllImageTasks(run[r].md)
        IN  /\ run[r].failedAt # "images"
            /\ run[r].pc = "images" =>
                  /\ run[r].imageCalls = SubSeq(tasks, 1, run[r].k)
                  /\ DOMAIN run[r].images = {tasks[x] : x \in 1..(run[r].k - 1)}
            /\ run[r].pc \in {"faq", "performance", "enhancements", "saving"} =>
                  /\ run[r].imageCalls = tasks
                  /\ DOMAIN run[r].images = {tasks[x] : x \in 1..Len(tasks)}
                  /\ \A key \in DOMAIN run[r].images :
                        run[r].images[key] \in {"img", "error"}

\* C6: in every assembly run the progress index takes the values 0..6 in
\* that order, and the calls of the stages are made in the order core text,
\* decoration, images, FAQ, performance, enhancements: the call in flight is
\* the one of the stage the progress index shows, and a call starts only in
\* the step in which the previous call of the run has ended.
C6_StagesInOrder ==
    /\ [](\A r \in Runs :
            LET Rank(c) == CASE c = "core" -> 0 [] c = "decorate" -> 1
                             [] c = "images" -> 2 [] c = "faq" -> 3
                             [] c = "performance" -> 4 [] c = "enhancements" -> 5
                calls == run[r].calls
                progress == run[r].progress
            IN  /\ \A x \in 1..Len(progress) : progress[x] = x - 1
                /\ \A x, y \in 1..Len(calls) :
                      x < y => /\ Rank(calls[x]) <= Rank(calls[y])
                               /\ Rank(calls[x]) = Rank(calls[y])
                                     => calls[x] = "images"
                /\ run[r].pc \in {"core", "decorate", "images", "faq",
                                  "performance", "enhancements"} =>
                      /\ calls # <<>>
                      /\ calls[Len(calls)] = run[r].pc
                      /\ progress[Len(progress)] = Rank(run[r].pc)
                /\ run[r].pc \in {"saving", "complete"} =>
                      progress = <<0, 1, 2, 3, 4, 5, 6>>)
    /\ [][\A r \in Runs :
            Len(run'[r].calls) > Len(run[r].calls) =>
               /\ Len(run'[r].calls) = Len(run[r].calls) + 1
               /\ IF run[r].calls = <<>> THEN run[r].pc = "idle"
                  ELSE run[r].pc = run[r].calls[Len(run[r].calls)]]_vars

\* a run that went through every stage, with two image calls
C6_Witness ==
    /\ run[1].pc = "complete"
    /\ run[1].progress = <<0, 1, 2, 3, 4, 5, 6>>
    /\ run[1].calls = <<"core", "decorate", "images", "images", "faq",
                        "performance", "enhancements">>

\* C7: when the FAQ, the performance or the enhancement stage fails, the
\* remaining enrichment stages still run and the Article is stored and
\* shown, with faqs undefined, performance undefined or the empty
\* enhancement bundle for the stage that failed.
C7_EnrichmentFailureDegrades ==
    /\ [](\A r \in Runs :
            run[r].pc \in {"saving", "complete"} =>
                /\ run[r].progress = <<0, 1, 2, 3, 4, 5, 6>>
                /\ "faq" \in run[r].stageFailed =>
                      run[r].item.faqs = "undefined"
                /\ "performance" \in run[r].stageFailed =>
                      run[r].item.performance = "undefined"
                /\ "enhancements" \in run[r].stageFailed =>
                      run[r].item.enhancements = "empty"
                /\ run[r].pc = "complete" =>
                      /\ r \in DOMAIN imageDb
                      /\ \E x \in 1..Len(articles) :
                            /\ articles[x].id = r
                            /\ articles[x].faqs = run[r].item.faqs
                            /\ articles[x].performance = run[r].item.performance
                            /\ articles[x].enhancements = run[r].item.enhancements)
    /\ [][\A r \in Runs :
            /\ (run[r].pc \in {"faq", "performance", "enhancements"}
                  /\ run'[r] # run[r])
                  => run'[r].pc \in {"performance", "enhancements", "saving"}
            /\ (run[r].pc = "saving" /\ run'[r].pc = "complete")
                  => /\ currentArticle'.id = r
                     /\ \E a \in rendering' : a.id = r]_vars
    /\ [][rendering' # rendering /\ rendering' \subseteq rendering
            => display' = "article"]_vars

\* the three enrichment stages of a run failed and its article is stored
\* and shown
C7_Witness ==
    /\ run[1].pc = "complete"
    /\ run[1].stageFailed = {"faq", "performance", "enhancements"}
    /\ run[1].calls = <<"core", "decorate", "images", "images", "faq",
                        "performance", "enhancements">>
    /\ Len(articles) = 1 /\ articles[1].faqs = "undefined"
    /\ articles[1].performance = "undefined"
    /\ articles[1].enhancements = "empty"
    /\ currentArticle.id = 1 /\ display = "article" /\ rendering = {}

\* C10: for every Article the pipeline stores, every image or screenshot
\* placeholder the renderer recognises in its markdown has an imageMap
\* entry under the placeholder's text before the article is rendered.
C10_PlaceholdersHaveEntries ==
    \A r \in Runs :
        run[r].pc \in {"saving", "complete"} =>
            WrapperKeys(RenderMarkdownToHtml(run[r].item.md))
                \subseteq DOMAIN run[r].item.imageMap

----------------------------------------------------------------------------
(* Claims about stored articles                                             *)

\* C8: for every article the pipeline can store, after any sequence of edit,
\* proofread, fact-check, audit, schedule and performance-input operations,
\* renderArticle (with displayPerformanceAnalysis) draws the article without
\* throwing, whichever optional fields are absent.
C8_RenderNeverThrows == display # "broken"

\* C9: an article, shown or stored, whose html is not empty has the html
\* renderMarkdownToHtml gives for its markdown, and a step of the edit-save
\* or the proofread handler that changes the markdown of a stored article
\* leaves its html empty.
C9_HtmlCacheConsistent ==
    /\ [](/\ \A x \in 1..Len(articles) :
               articles[x].html # <<>> =>
                  articles[x].html = RenderMarkdownToHtml(articles[x].md)
          /\ \A a \in rendering :
               a.html # <<>> => a.html = RenderMarkdownToHtml(a.md)
          /\ currentArticle # NoArticle =>
               (currentArticle.html # <<>> =>
                  currentArticle.html = RenderMarkdownToHtml(currentArticle.md)))
    /\ [][\A x \in 1..Len(articles) :
            (articles'[x].md # articles[x].md
                /\ (pcEdit' # pcEdit \/ pcProofread' # pcProofread))
            => articles'[x].html = <<>>]_vars

\* an edited article is shown and stored with the markup of the new
\* markdown, in which the ampersand is escaped
C9_Witness ==
    /\ articles[1].md = <<"t", "&">>
    /\ articles[1].html = <<[el |-> "text", data |-> <<"t">>],
                            [el |-> "text", data |-> <<"&amp;">>]>>
    /\ currentArticle = Full(articles[1])
    /\ display = "article" /\ rendering = {}

----------------------------------------------------------------------------
(* Claims about the image map                                               *)

----------------------------------------------------------------------------
(* step1_generateCoreText: the streamed text and the hallucination filter.  *)
(* The text is a sequence of tokens:                                        *)
(*   "[" "]" "(" ")"  these characters                                      *)
(*   "h"   the literal http:// or https://                                  *)
(*   "a"   a character that is no white space, bracket or parenthesis       *)
(*   "sp"  a white-space character                                          *)
(* A URI is a token sequence; <<>> stands for a grounding chunk without     *)
(* web.uri.                                                                 *)

\* chunks delivered by one stream
MaxChunks == 4

\* chunk.text of a chunk of the stream; <<>>: the chunk has no text
TextSamples ==
    { <<>>, <<"[", "a", "]", "(">>, <<"h", "a">>, <<")">>, <<"(", "a", ")">>,
      <<"sp">>, <<"a">> }

\* groundingChunks of a chunk of the stream
GroundingSamples ==
    { <<>>, << <<"h", "a">> >>, << <<"h", "a", "(", "a", ")">> >>, << <<>> >> }

\* String.prototype.trim
RECURSIVE TrimStart(_)
TrimStart(s) ==
    IF s # <<>> /\ Head(s) = "sp" THEN TrimStart(Tail(s)) ELSE s
RECURSIVE TrimEnd(_)
TrimEnd(s) ==
    IF s # <<>> /\ s[Len(s)] = "sp" THEN TrimEnd(SubSeq(s, 1, Len(s) - 1)) ELSE s
Trim(s) == TrimEnd(TrimStart(s))

\* validUris: the uri of every grounding chunk that has web.uri
ValidUris(groundingMetadata) ==
    {groundingMetadata[k] : k \in 1..Len(groundingMetadata)} \ {<<>>}

\* /\[([^\]]+)\]\((https?:\/\/[^\s\)]+)\)/ tried at position i of s: the
\* index of the closing ")" of the match, or 0
LinkEnd(s, i) ==
    IF ~(i <= Len(s) /\ s[i] = "[") THEN 0
    ELSE LET j == FirstOf({x \in (i + 1)..Len(s) : s[x] = "]"})
         IN  IF j < i + 2 \/ j + 3 > Len(s) THEN 0
             ELSE IF s[j + 1] # "(" \/ s[j + 2] # "h" THEN 0
             ELSE LET k == FirstOf({x \in (j + 3)..Len(s) : s[x] \in {"sp", ")"}})
                  IN  IF k >= j + 4 /\ s[k] = ")" THEN k ELSE 0

\* the replace callback applied to every match of the link expression from
\* position p on: a link whose url is in validUris is kept, of any other
\* link the anchor text is kept
RECURSIVE RemoveHallucinatedLinks(_, _, _)
RemoveHallucinatedLinks(s, p, validUris) ==
    LET i == FirstOf({x \in p..Len(s) : LinkEnd(s, x) # 0})
    IN  IF i = 0 THEN SubSeq(s, p, Len(s))
        ELSE LET e == LinkEnd(s, i)
                 j == FirstOf({x \in (i + 1)..Len(s) : s[x] = "]"})
                 text == SubSeq(s, i + 1, j - 1)
                 url == SubSeq(s, j + 2, e - 1)
             IN  SubSeq(s, p, i - 1)
                 \o (IF url \in validUris THEN SubSeq(s, i, e) ELSE text)
                 \o RemoveHallucinatedLinks(s, e + 1, validUris)

\* the call of step1_generateCoreText is made
CoreInit ==
    /\ RetryIdle /\ PipelineIdle(TRUE, 0)
    /\ histPending = <<>> /\ now = 0 /\ histCalls = 0
    /\ VideoIdle /\ AudioIdle /\ SubmitsIdle /\ AuditsIdle /\ ControlsIdle /\ FnIdle
    /\ core = [pc |-> "calling", chunks |-> 0, fullText |-> <<>>,
               groundingMetadata |-> <<>>, markdown |-> <<>>,
               references |-> <<>>]

\* generateContentStream rejects after the retries
CoreStreamRejects ==
    /\ core.pc = "calling"
    /\ core' = [core EXCEPT !.pc = "thrown"]
    /\ UNCHANGED exceptCore

\* generateContentStream resolves with the stream
CoreStreamOpens ==
    /\ core.pc = "calling"
    /\ core' = [core EXCEPT !.pc = "streaming"]
    /\ UNCHANGED exceptCore

\* one turn of the for-await loop
CoreChunk ==
    /\ core.pc = "streaming"
    /\ core.chunks < MaxChunks
    /\ \E text \in TextSamples, grounding \in GroundingSamples :
         core' = [core EXCEPT
                    !.chunks = @ + 1,
                    !.fullText = @ \o text,
                    !.groundingMetadata = @ \o grounding]
    /\ UNCHANGED exceptCore

\* the stream ends: an empty text is an error, otherwise the filtered text
\* is returned with the grounding chunks
CoreStreamEnds ==
    /\ core.pc = "streaming"
    /\ IF Trim(core.fullText) = <<>>
         THEN core' = [core EXCEPT !.pc = "thrown"]
         ELSE core' = [core EXCEPT
                         !.pc = "returned",
                         !.markdown = RemoveHallucinatedLinks(
                                          Trim(core.fullText), 1,
                                          ValidUris(core.groundingMetadata)),
                         !.references = core.groundingMetadata]
    /\ UNCHANGED exceptCore

NextCore ==
    \/ CoreStreamRejects
    \/ CoreStreamOpens
    \/ CoreChunk
    \/ CoreStreamEnds

\* one execution of step1_generateCoreText
SpecCore == CoreInit /\ [][NextCore]_vars

\* C12: after the hallucination filter, for every set G of grounding URIs
\* and every markdown link [text](u) of the streamed text, the link is kept
\* unchanged if and only if u is in G, otherwise it is replaced by exactly
\* its anchor text, and the text outside links is unchanged.  A markdown
\* link is "[", an anchor text without brackets, "](", a destination without
\* white space whose parentheses are balanced, and ")".  The returned
\* markdown is compared with the (trimmed) streamed text filtered that way.
C12_LinkKeptIffGrounded ==
    core.pc = "returned" =>
        LET s == Trim(core.fullText)
            G == ValidUris(core.groundingMetadata)
            RECURSIVE DestinationEnd(_, _)
            DestinationEnd(x, depth) ==
                IF x > Len(s) \/ s[x] = "sp" THEN 0
                ELSE IF s[x] = "(" THEN DestinationEnd(x + 1, depth + 1)
                ELSE IF s[x] = ")"
                       THEN IF depth = 0 THEN x
                            ELSE DestinationEnd(x + 1, depth - 1)
                ELSE DestinationEnd(x + 1, depth)
            AnchorEnd(i) ==
                FirstOf({x \in (i + 1)..Len(s) : s[x] \in {"[", "]"}})
            MarkdownLinkEnd(i) ==
                IF s[i] # "[" THEN 0
                ELSE LET j == AnchorEnd(i)
                     IN  IF j < i + 2 \/ j + 1 > Len(s) THEN 0
                         ELSE IF s[j] # "]" \/ s[j + 1] # "(" THEN 0
                         ELSE LET k == DestinationEnd(j + 2, 0)
                              IN  IF k > j + 2 THEN k ELSE 0
            RECURSIVE Expected(_)
            Expected(p) ==
                LET i == FirstOf({x \in p..Len(s) : MarkdownLinkEnd(x) # 0})
                IN  IF i = 0 THEN SubSeq(s, p, Len(s))
                    ELSE LET e == MarkdownLinkEnd(i)
                             j == AnchorEnd(i)
                         IN  SubSeq(s, p, i - 1)
                             \o (IF SubSeq(s, j + 2, e - 1) \in G
                                   THEN SubSeq(s, i, e)
                                   ELSE SubSeq(s, i + 1, j - 1))
                             \o Expected(e + 1)
        IN  core.markdown = Expected(1)

----------------------------------------------------------------------------
(* The history: addArticleToHistory, updateArticleInHistory and             *)
(* removeArticleFromHistory, one action per segment between awaits.  The    *)
(* IndexedDB requests of saveImagesToDb and deleteImagesFromDb are served   *)
(* in the order of the calls (readwrite transactions on one store); a call  *)
(* resumes when its transaction has completed, so the suspended calls form  *)
(* a queue and the store changes in the step in which a call resumes.       *)

\* calls of the three functions made by handlers
MaxHistCalls == 3

\* the article a run stored as the k-th one, after it was rendered
HistItem(k) ==
    StoredItem(k, <<"t", "IG", "{", "q", "}", "]", "IS", "{", "q", "}", "]">>,
               TRUE, "analysis", TRUE)

\* page load with a history one short of the cap or at the cap, the newest
\* record first; no article or one of the history is shown
HistInit ==
    /\ RetryIdle /\ FlowIdle(TRUE) /\ run = <<>> /\ HandlersIdle
    /\ core = [pc |-> "unused"]
    /\ VideoIdle /\ AudioIdle /\ SubmitsIdle /\ AuditsIdle /\ ControlsIdle /\ FnIdle
    /\ rendering = {}
    /\ histPending = <<>> /\ histCalls = 0
    /\ \E n \in {HistoryCap - 1, HistoryCap} :
         /\ now = n
         /\ articles = [x \in 1..n |-> WithoutImages(HistItem(n + 1 - x))]
         /\ imageDb = [k \in 1..n |-> Assets(HistItem(k))]
         /\ \E shown \in {0, 1, n} :
              /\ currentArticle = IF shown = 0 THEN NoArticle ELSE HistItem(shown)
              /\ display = IF shown = 0 THEN "initial" ELSE "article"

\* a suspended call: the function, its argument and, for the delete of
\* addArticleToHistory, the record popped
HistCall(op, item, popped) == [op |-> op, item |-> item, popped |-> popped]

\* renderArticle(item) of finalizeArticle: the new article has no html yet,
\* so it is rendered and updateArticleInHistory is called (lines 1699,
\* 1787-1830)
HistRenderNew(item, queue) ==
    LET a == [item EXCEPT !.html = RenderMarkdownToHtml(item.md)]
    IN  /\ currentArticle' = a
        /\ histPending' = Append(queue, HistCall("update", a, NoArticle))

\* finalizeArticle calls addArticleToHistory(newItem), which calls
\* saveImagesToDb
HistAdd ==
    /\ histCalls < MaxHistCalls
    /\ LET item == [HistItem(now + 1) EXCEPT !.html = <<>>]
       IN  histPending' = Append(histPending, HistCall("add", item, NoArticle))
    /\ now' = now + 1
    /\ histCalls' = histCalls + 1
    /\ UNCHANGED <<exceptHist, articles, imageDb, currentArticle, display>>

\* saveImagesToDb of addArticleToHistory has written the assets: unshift;
\* below the cap the function returns and the article is rendered, above it
\* the oldest record is popped and deleteImagesFromDb is called
HistAddResumes ==
    /\ histPending # <<>> /\ Head(histPending).op = "add"
    /\ LET item == Head(histPending).item
       IN  /\ imageDb' = Put(imageDb, item.id, Assets(item))
           /\ articles' = Unshift(articles, WithoutImages(item))
           /\ IF Len(articles) + 1 > HistoryCap
                THEN /\ histPending' =
                            Append(Tail(histPending),
                                   HistCall("evict", item, articles[Len(articles)]))
                     /\ UNCHANGED <<currentArticle, display>>
                ELSE /\ HistRenderNew(item, Tail(histPending))
                     /\ display' = display
    /\ UNCHANGED <<exceptHist, now, histCalls>>

\* deleteImagesFromDb(oldestItem.id) of addArticleToHistory has deleted the
\* assets: the function returns and the article is rendered
HistEvictResolves ==
    /\ histPending # <<>> /\ Head(histPending).op = "evict"
    /\ imageDb' = Without(imageDb, Head(histPending).popped.id)
    /\ HistRenderNew(Head(histPending).item, Tail(histPending))
    /\ UNCHANGED <<exceptHist, articles, display, now, histCalls>>

\* a handler changes a field of currentArticle and calls
\* updateArticleInHistory(currentArticle) (saveScheduleBtn, lines 619-629)
HistUpdate ==
    /\ histCalls < MaxHistCalls
    /\ currentArticle # NoArticle
    /\ \E at \in {"date", "undefined"} :
         LET item == [currentArticle EXCEPT !.scheduledAt = at]
         IN  /\ currentArticle' = item
             /\ histPending' = Append(histPending,
                                      HistCall("update", item, NoArticle))
    /\ histCalls' = histCalls + 1
    /\ UNCHANGED <<exceptHist, articles, imageDb, display, now>>

\* saveImagesToDb of updateArticleInHistory has written the assets: the
\* record of the same id, if the list has one, is replaced; the caller goes
\* on (renderArticle draws the article)
HistUpdateResumes ==
    /\ histPending # <<>> /\ Head(histPending).op = "update"
    /\ UpdateArticleInHistory(Head(histPending).item)
    /\ histPending' = Tail(histPending)
    /\ display' = IF currentArticle = Head(histPending).item
                    THEN "article" ELSE display
    /\ UNCHANGED <<exceptHist, currentArticle, now, histCalls>>

\* .delete-history-btn click: removeArticleFromHistory(id) up to its await
\* (lines 2473-2477, 2418)
HistRemove ==
    /\ histCalls < MaxHistCalls
    /\ \E x \in {1, Len(articles)} :
         /\ x \in 1..Len(articles)
         /\ articles' = [y \in 1..(Len(articles) - 1) |->
                            IF y < x THEN articles[y] ELSE articles[y + 1]]
         /\ histPending' = Append(histPending,
                                  HistCall("remove", articles[x], NoArticle))
    /\ histCalls' = histCalls + 1
    /\ UNCHANGED <<exceptHist, imageDb, currentArticle, display, now>>

\* deleteImagesFromDb of removeArticleFromHistory has deleted the assets:
\* resetUI when the article is shown
HistRemoveResumes ==
    /\ histPending # <<>> /\ Head(histPending).op = "remove"
    /\ imageDb' = Without(imageDb, Head(histPending).item.id)
    /\ histPending' = Tail(histPending)
    /\ display' = IF currentArticle.id = Head(histPending).item.id
                    THEN "initial" ELSE display
    /\ UNCHANGED <<exceptHist, articles, currentArticle, now, histCalls>>

NextHist ==
    \/ HistAdd
    \/ HistAddResumes
    \/ HistEvictResolves
    \/ HistUpdate
    \/ HistUpdateResumes
    \/ HistRemove
    \/ HistRemoveResumes

\* the history under calls of its three functions
SpecHist == HistInit /\ [][NextHist]_vars

\* the suspended call at the head of the queue resumes in this step
HeadResumes(op) ==
    /\ histPending # <<>> /\ Head(histPending).op = op
    /\ histPending' = <<>> \/ Head(histPending') # Head(histPending)

\* C13: the metadata list never holds more than 50 records, and an
\* addArticleToHistory that resumes with 50 records in the list puts the new
\* record first, removes the last record, which is the one inserted
\* earliest (ids are creation times), removes no other record and leaves
\* exactly 50; the delete it then awaits removes the asset record of the
\* popped article and no other.
C13_HistoryCap ==
    /\ [](Len(articles) <= HistoryCap)
    /\ [][(Len(articles) = HistoryCap /\ HeadResumes("add"))
          => LET evicted == articles[HistoryCap]
             IN  /\ Len(articles') = HistoryCap
                 /\ articles'[1] = WithoutImages(Head(histPending).item)
                 /\ \A x \in 1..HistoryCap : evicted.id <= articles[x].id
                 /\ SubSeq(articles', 2, HistoryCap)
                        = SubSeq(articles, 1, HistoryCap - 1)
                 /\ histPending'[Len(histPending')].op = "evict"
                 /\ histPending'[Len(histPending')].popped = evicted]_vars
    /\ [][HeadResumes("evict")
          => /\ imageDb' = Without(imageDb, Head(histPending).popped.id)
             /\ \A x \in 1..Len(articles') :
                    articles'[x].id # Head(histPending).popped.id]_vars

\* a 51st article was added to a full history: the records 2..51 are left
C13_Witness ==
    /\ Len(articles) = HistoryCap /\ histPending = <<>>
    /\ articles[1].id = HistoryCap + 1
    /\ articles[HistoryCap].id = 2
    /\ DOMAIN imageDb = 2..(HistoryCap + 1)

----------------------------------------------------------------------------
(* Claims about the persisted copy                                          *)

C15_WriteFollowsMutationAtOnce ==
    currentArticle # NoArticle =>
        \A x \in 1..Len(articles) :
            articles[x].id = currentArticle.id =>
                articles[x] = WithoutImages(currentArticle)

\* C16: removeArticleFromHistory(id) removes the metadata record and the
\* asset record of that id: while the call is suspended the list holds no
\* record with the id, and in the step in which the call completes neither
\* the list nor the asset store holds one.
C16_RemoveDeletesBoth ==
    /\ [](\A k \in 1..Len(histPending) :
             histPending[k].op = "remove" =>
                \A x \in 1..Len(articles) :
                    articles[x].id # histPending[k].item.id)
    /\ [][HeadResumes("remove")
          => /\ Head(histPending).item.id \notin DOMAIN imageDb'
             /\ Head(histPending).item.id \in DOMAIN imageDb
             /\ \A x \in 1..Len(articles') :
                    articles'[x].id # Head(histPending).item.id]_vars

\* the oldest article of a full history was removed: 49 records and 49
\* asset records are left
C16_Witness ==
    /\ histPending = <<>> /\ now = HistoryCap
    /\ Len(articles) = HistoryCap - 1
    /\ articles[HistoryCap - 1].id = 2
    /\ DOMAIN imageDb = 2..HistoryCap

----------------------------------------------------------------------------
(***************************************************************************)
(* Video generation and its polling loop: generateVideo, startVideoPolling *)
(* and the video part of renderArticle.  In this part currentArticle is a  *)
(* reference into `objects` (0 for null), because generateVideo writes    *)
(* fields of the object it was passed and a call suspended on the same     *)
(* object reads them later.  An article is its id, videoStatus ("none" for *)
(* undefined) and videoOperationName (0 for undefined); videoUrl is set    *)
(* exactly when the status is "completed".  The assets are left out:       *)
(* updateArticleInHistory is its write of the list, made when its          *)
(* saveImagesToDb resolves.  The html of every article is cached, so       *)
(* renderArticle reaches its video part in the segment in which it is      *)
(* called.                                                                  *)
(***************************************************************************)
MaxVideoStored == 1
MaxVideoCalls == 1
MaxTicks == 1
MaxTimers == 3
MaxOpens == 1
MaxObjects == MaxVideoCalls + 1

exceptVideo == <<retry, flowVars, run, imageDb, display, rendering,
                 articleVars, coreVars, histVars, audioVars, submitVars, auditVars,
                controlVars, fnVars>>

VideoArticle(id, status, name) ==
    [id |-> id, videoStatus |-> status, videoOperationName |-> name]

NoObject == VideoArticle(0, "none", 0)
IdleCall == [pc |-> "idle", obj |-> 0, item |-> NoObject]
IdleTick == [pc |-> "idle", article |-> NoObject, result |-> "none"]

\* the records loadArticlesFromStorage can find for one id: a video never
\* asked for, asked for and not yet started, in generation, generated,
\* failed before or after the operation got its name
VideoShapes(id) ==
    {VideoArticle(id, st[1], st[2]) :
        st \in {<<"none", 0>>, <<"pending", 0>>, <<"pending", 1>>,
                <<"completed", 1>>, <<"failed", 0>>, <<"failed", 1>>}}

\* page load: the history is read from localStorage, nothing is shown, the
\* handle is null
InitVideo ==
    /\ RetryIdle /\ run = <<>> /\ HandlersIdle
    /\ \E key \in BOOLEAN : FlowIdle(key)
    /\ core = [pc |-> "unused"]
    /\ histPending = <<>> /\ now = 0 /\ histCalls = 0
    /\ AudioIdle /\ SubmitsIdle /\ AuditsIdle /\ ControlsIdle /\ FnIdle
    /\ imageDb = EmptyMap /\ display = "initial" /\ rendering = {}
    /\ videoGenerationPollingInterval = 0 /\ liveTimers = {}
    /\ timersCreated = 0
    /\ objects = [o \in 1..MaxObjects |-> NoObject]
    /\ videoCalls = [c \in 1..MaxVideoCalls |-> IdleCall]
    /\ videoTicks = [k \in 1..MaxTicks |-> IdleTick]
    /\ videoOpens = {}
    /\ currentArticle = 0
    /\ \E list \in [1..MaxVideoStored -> UNION {VideoShapes(id) : id \in 1..MaxVideoStored}] :
         /\ \A x \in 1..MaxVideoStored : list[x].id = MaxVideoStored + 1 - x
         /\ articles = list

\* mutant of StartVideoPolling: the timer the handle refers to is not cleared
StartWithoutClear ==
    /\ timersCreated < MaxTimers
    /\ timersCreated' = timersCreated + 1
    /\ liveTimers' = liveTimers \cup {timersCreated + 1}
    /\ videoGenerationPollingInterval' = timersCreated + 1

\* startVideoPolling(): the timer of the handle, if any, is cleared and the
\* handle is set to a new timer (lines 2642-2647, 2700)
StartVideoPolling ==
    /\ timersCreated < MaxTimers
    /\ timersCreated' = timersCreated + 1
    /\ liveTimers' = (liveTimers \ {videoGenerationPollingInterval})
                        \cup {timersCreated + 1}
    /\ videoGenerationPollingInterval' = timersCreated + 1

\* mutant of StopVideoPolling: the loop goes on
KeepPolling == UNCHANGED pollVars

\* `if (videoGenerationPollingInterval) clearInterval(...)` and
\* `videoGenerationPollingInterval = null` (lines 2650-2651, 2664-2665,
\* 2697-2698)
StopVideoPolling ==
    /\ liveTimers' = liveTimers \ {videoGenerationPollingInterval}
    /\ videoGenerationPollingInterval' = 0
    /\ UNCHANGED timersCreated

\* the video part of renderArticle(article) (lines 1957-1961)
VideoPart(article) ==
    IF article.videoStatus = "pending" /\ videoGenerationPollingInterval = 0
      THEN StartVideoPolling
      ELSE UNCHANGED pollVars

\* the objects something still refers to
Refs(cur, calls) == ({cur} \cup {calls[c].obj : c \in DOMAIN calls}) \ {0}

Collect(objs, refs) ==
    [o \in DOMAIN objs |-> IF o \in refs THEN objs[o] ELSE NoObject]

\* the references and the objects after a step
Heap(cur, objs, calls) ==
    /\ currentArticle' = cur
    /\ videoCalls' = calls
    /\ objects' = Collect(objs, Refs(cur, calls))

\* the places no call refers to: the object made replaces the one shown
FreeObjects == DOMAIN objects \ Refs(0, videoCalls)

\* the place of an object made by `{ ...stub, ...imageData }`
NewObject == CHOOSE o \in FreeObjects : \A q \in FreeObjects : o <= q

FirstIdle(slots) ==
    CHOOSE k \in DOMAIN slots :
        /\ slots[k].pc = "idle"
        /\ \A j \in DOMAIN slots : slots[j].pc = "idle" => k <= j

\* click on .edit-btn of the history list: the stub is read and
\* getImagesFromDb is called (lines 2456-2467)
VideoOpenClick ==
    /\ Cardinality(videoOpens) < MaxOpens
    /\ \E x \in 1..Len(articles) : videoOpens' = videoOpens \cup {articles[x]}
    /\ UNCHANGED <<articles, currentArticle, pollVars, objects, videoCalls,
                   videoTicks, exceptVideo>>

\* getImagesFromDb of the .edit-btn handler resolves: the article object is
\* made from the stub and rendered (lines 2467-2469)
VideoOpenResumes ==
    /\ FreeObjects # {}
    /\ \E stub \in videoOpens :
         LET o == NewObject
             objs == [objects EXCEPT ![o] = stub]
         IN  /\ Heap(o, objs, videoCalls)
             /\ VideoPart(stub)
             /\ videoOpens' = videoOpens \ {stub}
    /\ UNCHANGED <<articles, videoTicks, exceptVideo>>

\* click on .delete-history-btn, confirmed: removeArticleFromHistory(id) up
\* to its await; resetUI() after it leaves currentArticle alone
\* (lines 2473-2476, 2418, 2385)
VideoRemove ==
    /\ \E x \in 1..Len(articles) :
         articles' = SubSeq(articles, 1, x - 1)
                        \o SubSeq(articles, x + 1, Len(articles))
    /\ UNCHANGED <<currentArticle, pollVars, objects, videoCalls, videoTicks,
                   videoOpens, exceptVideo>>

\* generateVideo(article) is called with the article shown, by the
\* selectVeoKeyBtn handler when openSelectKey resolved or by the assembly
\* line for the article it has just rendered, and awaits hasSelectedApiKey
\* (lines 764-768, 1257-1260, 2703-2706)
GenerateVideo ==
    /\ currentArticle # 0
    /\ \E c \in DOMAIN videoCalls : videoCalls[c].pc = "idle"
    /\ videoCalls' = [videoCalls EXCEPT ![FirstIdle(videoCalls)] =
                         [pc |-> "hasKey", obj |-> currentArticle,
                          item |-> NoObject]]
    /\ UNCHANGED <<articles, currentArticle, pollVars, objects, videoTicks,
                   videoOpens, exceptVideo>>

\* the catch block of generateVideo up to its await: the status of the
\* object becomes 'failed' and updateArticleInHistory is called with it
\* (lines 2739-2746)
CallCatches(c, objs, calls) ==
    LET o == calls[c].obj
        failed == [objs EXCEPT ![o].videoStatus = "failed"]
    IN  <<failed, [calls EXCEPT ![c].pc = "catchUpdating",
                                ![c].item = failed[o]]>>

\* hasSelectedApiKey resolves: without a key the call returns, with one the
\* status becomes 'pending' and updateArticleInHistory is called
\* (lines 2706-2714)
HasKeyResolves(c) ==
    /\ videoCalls[c].pc = "hasKey"
    /\ \E hasKey \in BOOLEAN :
         LET o == videoCalls[c].obj
             objs == [objects EXCEPT ![o].videoStatus = "pending"]
         IN  IF hasKey
               THEN Heap(currentArticle, objs,
                         [videoCalls EXCEPT ![c].pc = "updating1",
                                            ![c].item = objs[o]])
               ELSE Heap(currentArticle, objects,
                         [videoCalls EXCEPT ![c] = IdleCall])
    /\ UNCHANGED <<articles, pollVars, videoTicks, videoOpens, exceptVideo>>

\* hasSelectedApiKey rejects (lines 2706, 2739-2746)
HasKeyRejects(c) ==
    /\ videoCalls[c].pc = "hasKey"
    /\ LET after == CallCatches(c, objects, videoCalls)
       IN  Heap(currentArticle, after[1], after[2])
    /\ UNCHANGED <<articles, pollVars, videoTicks, videoOpens, exceptVideo>>

\* the first updateArticleInHistory resolves: the record is written, the
\* article is rendered and generateVideos is called; getGenAIClient throws
\* when there is no API key (lines 2714-2733, 2395)
Update1Resumes(c) ==
    /\ videoCalls[c].pc = "updating1"
    /\ articles' = Replace(articles, videoCalls[c].item)
    /\ LET o == videoCalls[c].obj
           after == CallCatches(c, objects, videoCalls)
       IN  /\ VideoPart(objects[o])
           /\ IF apiKey
                THEN Heap(o, objects,
                          [videoCalls EXCEPT ![c].pc = "generating",
                                             ![c].item = NoObject])
                ELSE Heap(o, after[1], after[2])
    /\ UNCHANGED <<videoTicks, videoOpens, exceptVideo>>

\* generateVideos resolves: the operation name is set on the object and
\* updateArticleInHistory is called (lines 2721-2736)
GenerateVideosResolves(c) ==
    /\ videoCalls[c].pc = "generating"
    /\ LET o == videoCalls[c].obj
           objs == [objects EXCEPT ![o].videoOperationName = 1]
       IN  Heap(currentArticle, objs,
                [videoCalls EXCEPT ![c].pc = "updating2", ![c].item = objs[o]])
    /\ UNCHANGED <<articles, pollVars, videoTicks, videoOpens, exceptVideo>>

\* generateVideos rejects (lines 2721, 2739-2746)
GenerateVideosRejects(c) ==
    /\ videoCalls[c].pc = "generating"
    /\ LET after == CallCatches(c, objects, videoCalls)
       IN  Heap(currentArticle, after[1], after[2])
    /\ UNCHANGED <<articles, pollVars, videoTicks, videoOpens, exceptVideo>>

\* the second updateArticleInHistory resolves: the record is written and
\* startVideoPolling() is called (lines 2736-2737)
Update2Resumes(c) ==
    /\ videoCalls[c].pc = "updating2"
    /\ articles' = Replace(articles, videoCalls[c].item)
    /\ StartVideoPolling
    /\ Heap(currentArticle, objects, [videoCalls EXCEPT ![c] = IdleCall])
    /\ UNCHANGED <<videoTicks, videoOpens, exceptVideo>>

\* updateArticleInHistory of the catch block resolves: the record is
\* written and the article is rendered (lines 2746-2747)
CatchUpdateResumes(c) ==
    /\ videoCalls[c].pc = "catchUpdating"
    /\ articles' = Replace(articles, videoCalls[c].item)
    /\ LET o == videoCalls[c].obj
       IN  /\ VideoPart(objects[o])
           /\ Heap(o, objects, [videoCalls EXCEPT ![c] = IdleCall])
    /\ UNCHANGED <<videoTicks, videoOpens, exceptVideo>>

\* articles.find(a => a.videoStatus === 'pending' && a.videoOperationName)
\* (line 2648): the index of the record, 0 when there is none
ArticleInProgress ==
    LET found == {x \in 1..Len(articles) :
                     /\ articles[x].videoStatus = "pending"
                     /\ articles[x].videoOperationName # 0}
    IN  IF found = {} THEN 0
        ELSE CHOOSE x \in found : \A y \in found : x <= y

\* a timer fires and no article is in progress: the timer of the handle is
\* cleared and the handle reset (lines 2647-2653)
TickFindsNone ==
    /\ liveTimers # {}
    /\ ArticleInProgress = 0
    /\ StopVideoPolling
    /\ UNCHANGED <<articles, currentArticle, objects, videoCalls, videoTicks,
                   videoOpens, exceptVideo>>

\* a timer fires and an article is in progress: getVideosOperation is
\* called, or getGenAIClient throws and the catch block calls
\* getImagesFromDb (lines 2647-2659, 2689-2691)
TickPolls ==
    /\ liveTimers # {}
    /\ ArticleInProgress # 0
    /\ \E k \in DOMAIN videoTicks : videoTicks[k].pc = "idle"
    /\ videoTicks' = [videoTicks EXCEPT ![FirstIdle(videoTicks)] =
                         [pc |-> IF apiKey THEN "polling" ELSE "catchReading",
                          article |-> articles[ArticleInProgress],
                          result |-> "none"]]
    /\ UNCHANGED <<articles, currentArticle, pollVars, objects, videoCalls,
                   videoOpens, exceptVideo>>

\* getVideosOperation resolves with an operation that is not done, is done
\* with a video to download, or is done without one; getImagesFromDb is
\* called (lines 2659-2661)
TickOperationResolves(k) ==
    /\ videoTicks[k].pc = "polling"
    /\ \E result \in {"running", "completed", "failed"} :
         videoTicks' = [videoTicks EXCEPT ![k].pc = "reading",
                                          ![k].result = result]
    /\ UNCHANGED <<articles, currentArticle, pollVars, objects, videoCalls,
                   videoOpens, exceptVideo>>

\* getVideosOperation rejects (lines 2659, 2689-2691)
TickOperationRejects(k) ==
    /\ videoTicks[k].pc = "polling"
    /\ videoTicks' = [videoTicks EXCEPT ![k].pc = "catchReading"]
    /\ UNCHANGED <<articles, currentArticle, pollVars, objects, videoCalls,
                   videoOpens, exceptVideo>>

\* getImagesFromDb resolves: the callback returns when the operation is not
\* done; otherwise the timer of the handle is cleared, the handle reset, and
\* the video is fetched or the status set to 'failed' and
\* updateArticleInHistory called (lines 2661-2684)
TickReadResolves(k) ==
    /\ videoTicks[k].pc = "reading"
    /\ IF videoTicks[k].result = "running"
         THEN /\ videoTicks' = [videoTicks EXCEPT ![k] = IdleTick]
              /\ UNCHANGED pollVars
         ELSE /\ StopVideoPolling
              /\ videoTicks' =
                   IF videoTicks[k].result = "completed"
                     THEN [videoTicks EXCEPT ![k].pc = "fetching"]
                     ELSE [videoTicks EXCEPT
                              ![k].pc = "updating",
                              ![k].article.videoStatus = "failed"]
    /\ UNCHANGED <<articles, currentArticle, objects, videoCalls,
                   videoOpens, exceptVideo>>

\* fetch and blob() resolve: videoUrl is set, the status becomes
\* 'completed' and updateArticleInHistory is called (lines 2670-2684)
TickFetchResolves(k) ==
    /\ videoTicks[k].pc = "fetching"
    /\ videoTicks' = [videoTicks EXCEPT ![k].pc = "updating",
                                        ![k].article.videoStatus = "completed"]
    /\ UNCHANGED <<articles, currentArticle, pollVars, objects, videoCalls,
                   videoOpens, exceptVideo>>

\* fetch or blob() rejects (lines 2670-2671, 2689-2691)
TickFetchRejects(k) ==
    /\ videoTicks[k].pc = "fetching"
    /\ videoTicks' = [videoTicks EXCEPT ![k].pc = "catchReading"]
    /\ UNCHANGED <<articles, currentArticle, pollVars, objects, videoCalls,
                   videoOpens, exceptVideo>>

\* `if (currentArticle?.id === fullArticle.id) renderArticle(fullArticle)`
\* with the new object fullArticle, whose status is not 'pending'
\* (lines 2685-2687, 2694-2696)
TickRenders(article) ==
    IF currentArticle # 0 /\ objects[currentArticle].id = article.id
      THEN /\ FreeObjects # {}
           /\ Heap(NewObject, [objects EXCEPT ![NewObject] = article],
                   videoCalls)
      ELSE UNCHANGED <<currentArticle, objects, videoCalls>>

\* updateArticleInHistory of the callback resolves: the record is written
\* and the article rendered if it is the one shown (lines 2684-2687)
TickUpdateResumes(k) ==
    /\ videoTicks[k].pc = "updating"
    /\ articles' = Replace(articles, videoTicks[k].article)
    /\ TickRenders(videoTicks[k].article)
    /\ videoTicks' = [videoTicks EXCEPT ![k] = IdleTick]
    /\ UNCHANGED <<pollVars, videoOpens, exceptVideo>>

\* getImagesFromDb of the catch block resolves: the status is set to
\* 'failed' and updateArticleInHistory is called (lines 2691-2693)
TickCatchReadResolves(k) ==
    /\ videoTicks[k].pc = "catchReading"
    /\ videoTicks' = [videoTicks EXCEPT ![k].pc = "catchUpdating",
                                        ![k].article.videoStatus = "failed"]
    /\ UNCHANGED <<articles, currentArticle, pollVars, objects, videoCalls,
                   videoOpens, exceptVideo>>

\* updateArticleInHistory of the catch block resolves: the record is
\* written, the article rendered if it is the one shown, the timer of the
\* handle cleared and the handle reset (lines 2693-2698)
TickCatchUpdateResumes(k) ==
    /\ videoTicks[k].pc = "catchUpdating"
    /\ articles' = Replace(articles, videoTicks[k].article)
    /\ TickRenders(videoTicks[k].article)
    /\ StopVideoPolling
    /\ videoTicks' = [videoTicks EXCEPT ![k] = IdleTick]
    /\ UNCHANGED <<videoOpens, exceptVideo>>

\* a timer fires (lines 2647-2700)
TimerTick == TickFindsNone \/ TickPolls

NextVideo ==
    \/ VideoOpenClick
    \/ VideoOpenResumes
    \/ VideoRemove
    \/ GenerateVideo
    \/ \E c \in 1..MaxVideoCalls : HasKeyResolves(c)
    \/ \E c \in 1..MaxVideoCalls : HasKeyRejects(c)
    \/ \E c \in 1..MaxVideoCalls : Update1Resumes(c)
    \/ \E c \in 1..MaxVideoCalls : GenerateVideosResolves(c)
    \/ \E c \in 1..MaxVideoCalls : GenerateVideosRejects(c)
    \/ \E c \in 1..MaxVideoCalls : Update2Resumes(c)
    \/ \E c \in 1..MaxVideoCalls : CatchUpdateResumes(c)
    \/ TickFindsNone
    \/ TickPolls
    \/ \E k \in 1..MaxTicks : TickOperationResolves(k)
    \/ \E k \in 1..MaxTicks : TickOperationRejects(k)
    \/ \E k \in 1..MaxTicks : TickReadResolves(k)
    \/ \E k \in 1..MaxTicks : TickFetchResolves(k)
    \/ \E k \in 1..MaxTicks : TickFetchRejects(k)
    \/ \E k \in 1..MaxTicks : TickUpdateResumes(k)
    \/ \E k \in 1..MaxTicks : TickCatchReadResolves(k)
    \/ \E k \in 1..MaxTicks : TickCatchUpdateResumes(k)

SpecVideo == InitVideo /\ [][NextVideo]_vars

\* setInterval runs the callback every 10 seconds for as long as the timer
\* is not cleared (line 2700)
SpecVideoLive == SpecVideo /\ WF_vars(TimerTick)

----------------------------------------------------------------------------
\* Claims about the polling loop

\* C17: at most one polling timer is live, and the handle
\* videoGenerationPollingInterval is non-null exactly when a timer is live
\* and then is that timer, in every state reached by generateVideo calls,
\* renderArticle calls and timer callbacks in any order.
C17_OnePollingTimer ==
    /\ Cardinality(liveTimers) <= 1
    /\ (videoGenerationPollingInterval # 0) <=> (liveTimers # {})
    /\ videoGenerationPollingInterval # 0 =>
          liveTimers = {videoGenerationPollingInterval}

\* startVideoPolling() of a kick-off replaced the timer an earlier
\* renderArticle had set, while a callback of that timer is suspended
C17_Witness ==
    /\ timersCreated = 2 /\ liveTimers = {2}
    /\ videoGenerationPollingInterval = 2
    /\ videoTicks[1].pc = "reading"
    /\ articles # <<>> /\ articles[1].videoStatus = "pending"

\* no record of the history has the video status 'pending'
NoArticlePending ==
    \A x \in 1..Len(articles) : articles[x].videoStatus # "pending"

\* C18: a timer is created only in the last segment of generateVideo (the
\* kick-off) or by a renderArticle of an article whose status is 'pending';
\* and whenever no article of the history is pending, the loop stops (the
\* handle is null) or an article becomes pending again.
C18_LoopStartsLazilyAndStops ==
    /\ [][liveTimers' \ liveTimers # {} =>
            \/ \E c \in DOMAIN videoCalls :
                  /\ videoCalls[c].pc = "updating2"
                  /\ videoCalls'[c].pc = "idle"
            \/ \E stub \in videoOpens \ videoOpens' :
                  stub.videoStatus = "pending"
            \/ \E c \in DOMAIN videoCalls :
                  /\ videoCalls[c].pc \in {"updating1", "catchUpdating"}
                  /\ videoCalls'[c].pc # videoCalls[c].pc
                  /\ objects[videoCalls[c].obj].videoStatus = "pending"]_vars
    /\ NoArticlePending
          ~> (videoGenerationPollingInterval = 0 \/ ~NoArticlePending)

\* the article in generation was opened, which started the loop, and was
\* deleted from the history; a callback then stopped the loop
C18_Witness ==
    /\ articles = <<>> /\ timersCreated = 1
    /\ videoGenerationPollingInterval = 0 /\ liveTimers = {}
    /\ currentArticle # 0 /\ objects[currentArticle].videoStatus = "pending"
    /\ videoTicks[1].pc = "idle" /\ videoCalls[1].pc = "idle"

----------------------------------------------------------------------------
(***************************************************************************)
(* Read-aloud (speechSynthesis) and the generated audio.  The generated    *)
(* audio is an <audio> element appended to #audio-player-container and     *)
(* played; emptying the container removes the element from the document,   *)
(* which pauses it.  currentAudioSource is never assigned.                 *)
(***************************************************************************)
MaxUtterances == 3

exceptAudio == <<retry, flowVars, run, storeVars, articleVars, coreVars,
                 histVars, videoVars, submitVars, auditVars,
                controlVars, fnVars>>

\* an article is shown or none is; the API key is set or not
InitAudio ==
    /\ RetryIdle /\ run = <<>> /\ HandlersIdle
    /\ \E key \in BOOLEAN : FlowIdle(key)
    /\ core = [pc |-> "unused"]
    /\ histPending = <<>> /\ now = 0 /\ histCalls = 0
    /\ VideoIdle /\ AudioIdle /\ SubmitsIdle /\ AuditsIdle /\ ControlsIdle /\ FnIdle
    /\ articles = <<>> /\ imageDb = EmptyMap /\ rendering = {}
    /\ \E shown \in BOOLEAN :
         /\ currentArticle = IF shown THEN HistItem(1) ELSE NoArticle
         /\ display = IF shown THEN "article" ELSE "initial"

\* stopSpeech() (lines 2270-2277): speechSynthesis.cancel() empties the
\* queue; whether an end event is dispatched for the utterance that was
\* being spoken depends on the browser (`ends`)
StopSpeech(ends) ==
    IF isSpeaking
      THEN /\ isSpeaking' = FALSE
           /\ utterances' = 0 /\ speaking' = FALSE
           /\ cancelledEnds' = IF speaking /\ ends THEN 1 ELSE cancelledEnds
      ELSE UNCHANGED <<isSpeaking, utterances, speaking, cancelledEnds>>

\* stopGeneratedAudio() (lines 2278-2288)
StopGeneratedAudio ==
    /\ currentAudioContext' = FALSE
    /\ audioPlayer' = "empty"

\* readAloudButton click: toggleSpeech() (lines 685, 2246-2269)
ToggleSpeech ==
    /\ \E ends \in BOOLEAN :
         IF isSpeaking
           THEN /\ StopSpeech(ends)
                /\ UNCHANGED <<currentAudioContext, audioPlayer>>
           ELSE IF currentArticle = NoArticle
                  THEN UNCHANGED <<isSpeaking, utterances, speaking,
                                   cancelledEnds, currentAudioContext,
                                   audioPlayer>>
                  ELSE /\ utterances < MaxUtterances
                       /\ StopGeneratedAudio
                       /\ utterances' = utterances + 1
                       /\ UNCHANGED <<isSpeaking, speaking, cancelledEnds>>
    /\ UNCHANGED <<pcAudio, exceptAudio>>

\* speechSynthesis begins to speak the first utterance of its queue:
\* utterance.onstart (lines 2258-2261)
UtteranceStarts ==
    /\ utterances > 0 /\ ~speaking
    /\ speaking' = TRUE
    /\ isSpeaking' = TRUE
    /\ UNCHANGED <<utterances, cancelledEnds, pcAudio, currentAudioContext,
                   audioPlayer, exceptAudio>>

\* the utterance has been spoken: utterance.onend (lines 2262-2266)
UtteranceEnds ==
    /\ speaking
    /\ speaking' = FALSE
    /\ utterances' = utterances - 1
    /\ isSpeaking' = FALSE
    /\ UNCHANGED <<cancelledEnds, pcAudio, currentAudioContext, audioPlayer,
                   exceptAudio>>

\* the end event of a cancelled utterance is dispatched: utterance.onend
\* (lines 2262-2266)
CancelledUtteranceEnds ==
    /\ cancelledEnds > 0
    /\ cancelledEnds' = cancelledEnds - 1
    /\ isSpeaking' = FALSE
    /\ UNCHANGED <<utterances, speaking, pcAudio, currentAudioContext,
                   audioPlayer, exceptAudio>>

\* switchMode(mode): stopSpeech(), stopGeneratedAudio() (lines 916-918);
\* editButton and renderArticle call the two in the same way (lines 683,
\* 1798-1799)
SwitchModeStops ==
    /\ \E ends \in BOOLEAN : StopSpeech(ends)
    /\ StopGeneratedAudio
    /\ UNCHANGED <<pcAudio, exceptAudio>>

\* generateAudioButton click up to its await: stopGeneratedAudio(), the
\* button is disabled and the speech generation call is made; getGenAIClient
\* throws when there is no API key (lines 686-711, 727-736)
GenerateAudioClick ==
    /\ currentArticle # NoArticle /\ pcAudio = "idle"
    /\ currentAudioContext' = FALSE
    /\ IF apiKey
         THEN pcAudio' = "generating" /\ audioPlayer' = "empty"
         ELSE pcAudio' = "idle" /\ audioPlayer' = "error"
    /\ UNCHANGED <<isSpeaking, utterances, speaking, cancelledEnds,
                   exceptAudio>>

\* the call resolves: without audio data the handler throws; with it the
\* AudioContext is made, the data decoded (which may throw), the <audio>
\* element put into the container and played (lines 711-726, 727-736)
AudioGenerationResolves ==
    /\ pcAudio = "generating"
    /\ \E data \in {"none", "invalid", "audio"} :
         /\ currentAudioContext' = IF data = "none" THEN currentAudioContext
                                   ELSE TRUE
         /\ audioPlayer' = IF data = "audio" THEN "playing" ELSE "error"
    /\ pcAudio' = "idle"
    /\ UNCHANGED <<isSpeaking, utterances, speaking, cancelledEnds,
                   exceptAudio>>

\* the call rejects after the retries (lines 711, 727-736)
AudioGenerationRejects ==
    /\ pcAudio = "generating"
    /\ audioPlayer' = "error"
    /\ pcAudio' = "idle"
    /\ UNCHANGED <<isSpeaking, utterances, speaking, cancelledEnds,
                   currentAudioContext, exceptAudio>>

\* the <audio> element has played the audio to its end (line 726)
AudioPlaybackEnds ==
    /\ audioPlayer = "playing"
    /\ audioPlayer' = "ended"
    /\ UNCHANGED <<isSpeaking, utterances, speaking, cancelledEnds, pcAudio,
                   currentAudioContext, exceptAudio>>

NextAudio ==
    \/ ToggleSpeech
    \/ UtteranceStarts
    \/ UtteranceEnds
    \/ CancelledUtteranceEnds
    \/ SwitchModeStops
    \/ GenerateAudioClick
    \/ AudioGenerationResolves
    \/ AudioGenerationRejects
    \/ AudioPlaybackEnds

SpecAudio == InitAudio /\ [][NextAudio]_vars

\* C19: speechSynthesis does not speak while the generated audio plays,
\* whatever the order of read-aloud clicks, generate-audio clicks and
\* completions of the speech generation call.
C19_SpeechAndAudioExclusive == ~(speaking /\ audioPlayer = "playing")

----------------------------------------------------------------------------
\* C20: the backToFormBtn click leaves suggestedOutlines, selectedOutline,
\* currentResearchedText, suggestedDirections and selectedDirection empty;
\* the backToOutlinesBtn click leaves suggestedDirections, selectedDirection
\* and selectedOutline empty.
C20_BackwardNavigationDiscards ==
    /\ [][BackToForm =>
            /\ suggestedOutlines' = 0 /\ selectedOutline' = 0
            /\ currentResearchedText' = ""
            /\ suggestedDirections' = 0 /\ selectedDirection' = 0]_vars
    /\ [][BackToOutlines =>
            /\ suggestedDirections' = 0 /\ selectedDirection' = 0
            /\ selectedOutline' = 0]_vars

----------------------------------------------------------------------------
\* Claims about the interactive flow

\* the state of the flow the page shows: an assembly run in flight, else
\* the pane shown (step 3, step 2), the direction stage counting as
\* direction-selection while its call is in flight; "input" otherwise, which
\* includes the page after a run has ended (complete or failed)
FlowState ==
    CASE \E r \in DOMAIN run : InFlight(r) -> "assembling"
      [] ~step3Hidden -> "direction-selection"
      [] ~step2Hidden -> "outline-selection"
      [] pcDirections = "call" -> "direction-selection"
      [] OTHER -> "input"

\* the transitions of the state machine, the end of a run (complete or
\* failed) being the transition from assembling to input
FlowEdges ==
    {<<"input", "outline-selection">>,
     <<"outline-selection", "direction-selection">>,
     <<"outline-selection", "assembling">>,
     <<"direction-selection", "assembling">>,
     <<"assembling", "input">>,
     <<"outline-selection", "input">>,
     <<"direction-selection", "outline-selection">>}

\* a run starts and fails in one segment (there is no API key)
RunFailsAtOnce ==
    \E r \in DOMAIN run : run[r].pc = "idle" /\ run'[r].pc = "failed"

\* C21: the flow takes only the transitions of the state machine (a new
\* start from the input state by switchMode('create') and a run that fails
\* at its start apart); a selection
\* state is left only in the step of a click made in that state, the timer
\* of a direction card and the failure of the direction stage included; a
\* run of the assembly line starts only with a selected outline.
C21_FlowFollowsStateMachine ==
    /\ [][FlowState' # FlowState =>
            (\/ <<FlowState, FlowState'>> \in FlowEdges
             \/ SwitchModeCreate /\ FlowState' = "input"
             \/ RunFailsAtOnce /\ FlowState' = "input")]_vars
    /\ [][FlowState = "outline-selection" /\ FlowState' # FlowState =>
            OutlineClick \/ BackToForm \/ SwitchModeCreate]_vars
    /\ [][FlowState = "direction-selection" /\ FlowState' # FlowState =>
            \/ DirectionTimerFires \/ DirectionsFail \/ BackToOutlines
            \/ SwitchModeCreate]_vars
    /\ [][\A r \in DOMAIN run :
            run[r].pc = "idle" /\ run'[r].pc # "idle" => selectedOutline' # 0]_vars

\* C22: a failure of the outline-suggestion stage halts the flow: the step
\* that handles it shows and hides no pane (a flow in the input state stays
\* there, with the outline pane hidden), starts neither the direction stage
\* nor a run of the assembly line, arms no timer, and clears the loading state.
C22_OutlineFailureHalts ==
    [][OutlinesFail =>
         /\ UNCHANGED <<step1Hidden, step2Hidden, step3Hidden>>
         /\ FlowState' = FlowState
         /\ FlowState = "input" => step2Hidden' /\ step3Hidden' /\ ~step1Hidden'
         /\ UNCHANGED <<pcDirections, run, timers, suggestedOutlines,
                        selectedOutline>>
         /\ pcSubmit' = "idle"
         /\ ~btnDisabled']_vars

\* the submit handler has ended after a research that returned text, the
\* form is shown, no outline was suggested and nothing is in flight
C22_Witness ==
    /\ pcSubmit = "idle" /\ ~btnDisabled
    /\ currentResearchedText = "research"
    /\ suggestedOutlines = 0 /\ outlineCards = 0
    /\ ~step1Hidden /\ step2Hidden /\ step3Hidden
    /\ pcDirections = "idle" /\ \A r \in DOMAIN run : run[r].pc = "idle"

----------------------------------------------------------------------------
(***************************************************************************)
(* The form submit handler, one record per execution.  The handler tests   *)
(* only analyzePersonaBtn.disabled (line 314), which every setLoading(false)*)
(* and checkApiKeyOnLoad() of another handler resets, so executions can    *)
(* overlap.  The texts are short: sanitizeString and safeSubstring(8000)   *)
(* leave them as they are.                                                 *)
(***************************************************************************)
MaxSubmits == 2

\* the values of referenceTextArea.value
RefTexts == {"", "ref"}

\* researchHeader (line 346), abridged
ResearchHeader == "\n\n# research\n---\n"

\* no prompt was built yet
NoPrompt == "<none>"

exceptSubmit == <<retry, run, storeVars, articleVars, coreVars, histVars,
                  videoVars, audioVars, auditVars, controlVars, fnVars>>

InitSubmit ==
    /\ RetryIdle /\ run = <<>> /\ HandlersIdle
    /\ \E key \in BOOLEAN : FlowIdle(key)
    /\ core = [pc |-> "unused"]
    /\ histPending = <<>> /\ now = 0 /\ histCalls = 0
    /\ VideoIdle /\ AudioIdle /\ SubmitsIdle /\ AuditsIdle /\ ControlsIdle /\ FnIdle
    /\ articles = <<>> /\ imageDb = EmptyMap
    /\ currentArticle = NoArticle /\ display = "initial" /\ rendering = {}

\* combinedReferenceText (lines 343-350)
CombinedReferenceText(referenceText, researched) ==
    IF researched # ""
      THEN IF referenceText # ""
             THEN referenceText \o ResearchHeader \o researched
             ELSE researched
      ELSE referenceText

\* form submit (lines 312-326); without an API key both getGenAIClient()
\* calls throw and the handler runs to its end (lines 326-419)
SubmitForm ==
    /\ ~btnDisabled /\ ~step1Hidden
    /\ Len(submits) < MaxSubmits
    /\ currentResearchedText' = ""
    /\ \E ref \in RefTexts :
         IF apiKey
           THEN /\ submits' = Append(submits,
                       [pc |-> "research", research |-> "pending",
                        referenceText |-> NoPrompt, passed |-> NoPrompt])
                /\ btnDisabled' = TRUE
           ELSE /\ submits' = Append(submits,
                       [pc |-> "failed", research |-> "fail",
                        referenceText |-> ref,
                        passed |-> CombinedReferenceText(ref, "")])
                /\ btnDisabled' = FALSE
    /\ UNCHANGED <<apiKey, step1Hidden, step2Hidden, step3Hidden,
                   suggestedOutlines, outlineCards, selectedOutline,
                   suggestedDirections, directionCards, selectedDirection,
                   pcSubmit, pcDirections, timers, exceptSubmit>>

\* the research call of execution s ends (lines 327-340) and the outline
\* prompt is built from referenceTextArea.value (lines 341-366); without an
\* API key getGenAIClient() throws and the handler ends (lines 407, 414-419)
ResearchEnds(s) ==
    /\ submits[s].pc = "research"
    /\ \E outcome \in {"fail", "empty", "text"}, ref \in RefTexts :
         LET researched == CASE outcome = "text" -> "research"
                             [] outcome = "empty" -> ""
                             [] OTHER -> currentResearchedText
         IN  /\ currentResearchedText' = researched
             /\ submits' = [submits EXCEPT ![s] =
                    [pc |-> IF apiKey THEN "outlines" ELSE "failed",
                     research |-> outcome,
                     referenceText |-> ref,
                     passed |-> CombinedReferenceText(ref, researched)]]
    /\ btnDisabled' = apiKey
    /\ UNCHANGED <<apiKey, step1Hidden, step2Hidden, step3Hidden,
                   suggestedOutlines, outlineCards, selectedOutline,
                   suggestedDirections, directionCards, selectedDirection,
                   pcSubmit, pcDirections, timers, exceptSubmit>>

\* the outline call of execution s fails (lines 414-419)
OutlineCallFails(s) ==
    /\ submits[s].pc = "outlines"
    /\ submits' = [submits EXCEPT ![s].pc = "failed"]
    /\ btnDisabled' = FALSE
    /\ UNCHANGED <<apiKey, step1Hidden, step2Hidden, step3Hidden,
                   suggestedOutlines, outlineCards, selectedOutline,
                   suggestedDirections, directionCards, selectedDirection,
                   currentResearchedText, pcSubmit, pcDirections, timers,
                   exceptSubmit>>

\* the outline call of execution s returns n outlines (lines 409-413, 417-419)
OutlineCallResolves(s) ==
    /\ submits[s].pc = "outlines"
    /\ submits' = [submits EXCEPT ![s].pc = "shown"]
    /\ \E n \in 0..MaxOutlines :
         /\ suggestedOutlines' = n
         /\ outlineCards' = n
    /\ step1Hidden' = TRUE
    /\ step2Hidden' = FALSE
    /\ btnDisabled' = FALSE
    /\ UNCHANGED <<apiKey, step3Hidden, selectedOutline,
                   suggestedDirections, directionCards, selectedDirection,
                   currentResearchedText, pcSubmit, pcDirections, timers,
                   exceptSubmit>>

NextSubmit ==
    \/ SubmitForm
    \/ \E s \in DOMAIN submits : ResearchEnds(s)
    \/ \E s \in DOMAIN submits : OutlineCallFails(s)
    \/ \E s \in DOMAIN submits : OutlineCallResolves(s)
    \/ BackToForm \/ SwitchModeCreate
    \/ ClearApiKey \/ SaveApiKey

SpecSubmit == InitSubmit /\ [][NextSubmit]_vars

\* C23: a research stage that failed or returned empty text does not end
\* the handler: the outline stage is entered after every end of the research
\* stage (its prompt is built), and the reference text of that prompt is then
\* the text of the reference field alone.
C23_ResearchFailureNeverHalts ==
    \A s \in DOMAIN submits :
        submits[s].research # "pending" =>
            /\ submits[s].passed # NoPrompt
            /\ submits[s].research \in {"fail", "empty"} =>
                   submits[s].passed = submits[s].referenceText

----------------------------------------------------------------------------
(***************************************************************************)
(* The content audit of the history list, one record per execution of     *)
(* handleContentAudit.  The audit modal can be closed while the call is in *)
(* flight (lines 802-803) and the buttons of the history list are then     *)
(* clickable again, so executions can overlap.                             *)
(***************************************************************************)
MaxAudits == 2
MaxAuditStored == 2
MaxSuggestions == 1

exceptAudit == <<retry, flowVars, run, currentArticle, display, rendering,
                 articleVars, coreVars, videoVars, audioVars, submitVars,
                 controlVars, fnVars>>

\* page load with a stored history; no article is shown
InitContentAudit ==
    /\ RetryIdle /\ FlowIdle(TRUE) /\ run = <<>> /\ HandlersIdle
    /\ core = [pc |-> "unused"]
    /\ VideoIdle /\ AudioIdle /\ SubmitsIdle /\ AuditsIdle /\ ControlsIdle /\ FnIdle
    /\ rendering = {}
    /\ histPending = <<>> /\ histCalls = 0 /\ now = MaxAuditStored
    /\ articles = [x \in 1..MaxAuditStored |->
                      WithoutImages(HistItem(MaxAuditStored + 1 - x))]
    /\ imageDb = [k \in 1..MaxAuditStored |-> Assets(HistItem(k))]
    /\ currentArticle = NoArticle /\ display = "initial"

\* the else branch of the answer (lines 2615-2627): result.suggestions || []
ShowSuggestions(suggestions) ==
    /\ currentAuditSuggestions' = suggestions
    /\ editWithSuggestionsHidden' = (editWithSuggestionsHidden /\ suggestions = <<>>)

\* .update-check-btn click (lines 2478-2482): handleContentAudit(id) up to
\* its await (lines 2549-2596)
ContentAuditClick ==
    /\ apiKey
    /\ Len(audits) < MaxAudits
    /\ \E x \in 1..Len(articles) :
         /\ audits' = Append(audits, [pc |-> "call", article |-> articles[x],
                                      fresh |-> FALSE, item |-> NoArticle])
         /\ currentAuditArticleId' = articles[x].id
    /\ currentAuditSuggestions' = <<>>
    /\ editWithSuggestionsHidden' = TRUE
    /\ UNCHANGED <<exceptAudit, histVars, articles, imageDb, suggestionEdit>>

\* the audit call of execution a fails or its answer does not parse (lines
\* 2633-2639)
ContentAuditFails(a) ==
    /\ audits[a].pc = "call"
    /\ audits' = [audits EXCEPT ![a].pc = "failed"]
    /\ UNCHANGED <<exceptAudit, histVars, articles, imageDb,
                   currentAuditSuggestions, editWithSuggestionsHidden,
                   currentAuditArticleId, suggestionEdit>>

\* the audit call of execution a answers (lines 2597-2629): the answer is
\* shown and getImagesFromDb is awaited
ContentAuditAnswers(a) ==
    /\ audits[a].pc = "call"
    /\ \E fresh \in BOOLEAN, n \in 0..MaxSuggestions :
         /\ audits' = [audits EXCEPT ![a].pc = "read", ![a].fresh = fresh]
         /\ IF fresh
              THEN UNCHANGED <<currentAuditSuggestions, editWithSuggestionsHidden>>
              ELSE ShowSuggestions([k \in 1..n |-> audits[a].article.id])
    /\ UNCHANGED <<exceptAudit, histVars, articles, imageDb,
                   currentAuditArticleId, suggestionEdit>>

\* getImagesFromDb of execution a resolves (lines 2629-2631): the article
\* read at the click gets the stored assets and the date, and
\* updateArticleInHistory is called up to its await
ContentAuditStamps(a) ==
    /\ audits[a].pc = "read"
    /\ LET item == [Full(audits[a].article) EXCEPT !.lastCheckedForUpdate = "date"]
       IN  /\ audits' = [audits EXCEPT ![a].pc = "save", ![a].item = item]
           /\ histPending' = Append(histPending, HistCall("update", item, NoArticle))
    /\ UNCHANGED <<exceptAudit, now, histCalls, articles, imageDb,
                   currentAuditSuggestions, editWithSuggestionsHidden,
                   currentAuditArticleId, suggestionEdit>>

\* saveImagesToDb of the updateArticleInHistory of execution a has written
\* the assets: the record of the same id, if the list has one, is replaced
\* and handleContentAudit ends (lines 2631, 2636-2639)
ContentAuditSaved(a) ==
    /\ audits[a].pc = "save"
    /\ histPending # <<>> /\ Head(histPending).op = "update"
    /\ Head(histPending).item = audits[a].item
    /\ \A b \in 1..(a - 1) :
          ~(audits[b].pc = "save" /\ audits[b].item = audits[a].item)
    /\ UpdateArticleInHistory(audits[a].item)
    /\ histPending' = Tail(histPending)
    /\ audits' = [audits EXCEPT ![a].pc = "done"]
    /\ UNCHANGED <<exceptAudit, now, histCalls,
                   currentAuditSuggestions, editWithSuggestionsHidden,
                   currentAuditArticleId, suggestionEdit>>

\* editWithSuggestionsBtn click up to its await (lines 805-810); the button
\* is in the audit modal and is clicked when it is shown
EditWithSuggestionsClick ==
    /\ ~editWithSuggestionsHidden
    /\ suggestionEdit.pc = "idle"
    /\ currentAuditArticleId # 0
    /\ \E x \in 1..Len(articles) :
         /\ articles[x].id = currentAuditArticleId
         /\ suggestionEdit' = [suggestionEdit EXCEPT !.pc = "read",
                                                     !.stub = articles[x]]
    /\ UNCHANGED <<exceptAudit, histVars, articles, imageDb, audits,
                   currentAuditSuggestions, editWithSuggestionsHidden,
                   currentAuditArticleId>>

\* getImagesFromDb of the handler resolves (lines 810-848): the article is
\* rendered and opened in the editor, the co-pilot panel gets the
\* suggestions of currentAuditSuggestions
EditWithSuggestionsResumes ==
    /\ suggestionEdit.pc = "read"
    /\ RenderArticle(Full(suggestionEdit.stub), display, rendering)
    /\ suggestionEdit' = [suggestionEdit EXCEPT !.pc = "done",
                                                !.loaded = currentAuditSuggestions]
    /\ step1Hidden' = FALSE /\ step2Hidden' = TRUE /\ step3Hidden' = TRUE
    /\ UNCHANGED <<apiKey, btnDisabled, suggestedOutlines, outlineCards,
                   selectedOutline, suggestedDirections, directionCards,
                   selectedDirection, currentResearchedText, pcSubmit,
                   pcDirections, timers, run, articles, imageDb, retry,
                   articleVars, coreVars, histVars, videoVars, audioVars,
                   submitVars, controlVars, fnVars, audits,
                   currentAuditSuggestions, editWithSuggestionsHidden,
                   currentAuditArticleId>>

NextContentAudit ==
    \/ ContentAuditClick
    \/ EditWithSuggestionsClick
    \/ EditWithSuggestionsResumes
    \/ \E a \in DOMAIN audits : ContentAuditFails(a)
    \/ \E a \in DOMAIN audits : ContentAuditAnswers(a)
    \/ \E a \in DOMAIN audits : ContentAuditStamps(a)
    \/ \E a \in DOMAIN audits : ContentAuditSaved(a)
    \/ HistRemove
    \/ HistRemoveResumes

SpecContentAudit == InitContentAudit /\ [][NextContentAudit]_vars

\* the record of the history with this id has the audit date
Stamped(list, id) ==
    \A x \in 1..Len(list) : list[x].id = id => list[x].lastCheckedForUpdate = "date"

\* C24: an audit whose call answered and whose write resumed leaves the
\* record of its article, when the list still has it, with the audit date,
\* whether is_fresh was true or false; in the step in which an answer with
\* is_fresh true is handled the suggestion list is empty and the
\* edit-with-suggestions button hidden; the step of a failed audit leaves
\* the history and the asset store as they were.
C24_AuditStampsTimestamp ==
    /\ [][\A a \in DOMAIN audits :
            ContentAuditSaved(a) => Stamped(articles', audits[a].article.id)]_vars
    /\ [][\A a \in DOMAIN audits :
            (ContentAuditAnswers(a) /\ audits'[a].fresh)
               => currentAuditSuggestions' = <<>> /\ editWithSuggestionsHidden']_vars
    /\ [][\A a \in DOMAIN audits :
            ContentAuditFails(a) => UNCHANGED <<articles, imageDb, histPending>>]_vars

----------------------------------------------------------------------------
(***************************************************************************)
(* The buttons that start the async actions on an article: what each       *)
(* handler does to its own button.  An article is shown (currentArticle is *)
(* set).  A record holds the button's disabled flag and label and, for     *)
(* every execution of its handler in flight, the label the button had at   *)
(* the click.  The labels are abridged.                                    *)
(***************************************************************************)
MaxInFlight == 2

Controls == {"factCheck", "proofread", "coPilot", "audit", "video"}

\* the label in the page when the article is shown; the edit button has
\* set the label of the co-pilot button (line 683)
InitialLabel(c) == IF c = "coPilot" THEN "analyze" ELSE c

InitControls ==
    /\ RetryIdle /\ FlowIdle(TRUE) /\ run = <<>> /\ HandlersIdle
    /\ core = [pc |-> "unused"]
    /\ histPending = <<>> /\ now = 0 /\ histCalls = 0
    /\ VideoIdle /\ AudioIdle /\ SubmitsIdle /\ AuditsIdle /\ FnIdle
    /\ articles = <<WithoutImages(HistItem(1))>>
    /\ imageDb = <<Assets(HistItem(1))>>
    /\ currentArticle = HistItem(1) /\ display = "article" /\ rendering = {}
    /\ controls = [c \in Controls |->
                     [disabled |-> FALSE, label |-> InitialLabel(c), runs |-> <<>>]]

exceptControls == <<retry, pipelineVars, articleVars, coreVars, histVars,
                    videoVars, audioVars, submitVars, auditVars, fnVars>>

\* a handler that returns when its button is disabled, disables it and
\* sets the label of the running action
DisablingClick(c, busyLabel) ==
    /\ ~controls[c].disabled
    /\ controls' = [controls EXCEPT ![c] =
                       [disabled |-> TRUE, label |-> busyLabel,
                        runs |-> Append(@.runs, @.label)]]
    /\ UNCHANGED exceptControls

\* the finally block of such a handler
Finally(c, label) ==
    /\ controls[c].runs # <<>>
    /\ controls' = [controls EXCEPT ![c] =
                       [disabled |-> FALSE, label |-> label,
                        runs |-> Tail(@.runs)]]
    /\ UNCHANGED exceptControls

\* a handler that does not touch its button
PlainClick(c) ==
    /\ Len(controls[c].runs) < MaxInFlight
    /\ controls' = [controls EXCEPT ![c].runs = Append(@, controls[c].label)]
    /\ UNCHANGED exceptControls

PlainEnd(c) ==
    /\ controls[c].runs # <<>>
    /\ controls' = [controls EXCEPT ![c].runs = Tail(@)]
    /\ UNCHANGED exceptControls

\* factCheckButton click up to its await (lines 457-464)
FactCheckButtonClick == DisablingClick("factCheck", "checking")

\* factCheckButton handler ends, through the catch block or not (lines
\* 524-531): buttonText.textContent = originalText
FactCheckButtonEnds == Finally("factCheck", Head(controls["factCheck"].runs))

\* proofreadButton click up to its await (lines 636-643)
ProofreadButtonClick == DisablingClick("proofread", "proofreading")

\* proofreadButton handler ends (lines 663-670)
ProofreadButtonEnds == Finally("proofread", Head(controls["proofread"].runs))

\* coPilotAnalyzeBtn click up to its await (lines 533-541)
CoPilotAnalyzeClick == DisablingClick("coPilot", "analyzing")

\* coPilotAnalyzeBtn handler ends (lines 574-581)
CoPilotAnalyzeEnds == Finally("coPilot", "reanalyze")

\* editButton click (line 683) sets the label of the co-pilot button
EditButtonClick ==
    /\ controls["coPilot"].label # "analyze"
    /\ controls' = [controls EXCEPT !["coPilot"].label = "analyze"]
    /\ UNCHANGED exceptControls

\* .update-check-btn click: handleContentAudit up to its await (lines
\* 2478-2482, 2549-2596)
UpdateCheckClick == PlainClick("audit")

\* handleContentAudit ends (lines 2633-2639)
UpdateCheckEnds == PlainEnd("audit")

\* selectVeoKeyBtn click (lines 764-769): generateVideo(currentArticle)
SelectVeoKeyClick == PlainClick("video")

\* generateVideo ends (lines 2703-2748)
GenerateVideoEnds == PlainEnd("video")

NextControls ==
    \/ FactCheckButtonClick \/ FactCheckButtonEnds
    \/ ProofreadButtonClick \/ ProofreadButtonEnds
    \/ CoPilotAnalyzeClick \/ CoPilotAnalyzeEnds
    \/ EditButtonClick
    \/ UpdateCheckClick \/ UpdateCheckEnds
    \/ SelectVeoKeyClick \/ GenerateVideoEnds

SpecControls == InitControls /\ [][NextControls]_vars

\* C25: the step in which an execution of one of the five handlers ends
\* leaves its button enabled with the label it had at the click, and no
\* button has two executions of its handler in flight.
C25_ControlsRestored ==
    /\ [][\A c \in DOMAIN controls :
            Len(controls'[c].runs) < Len(controls[c].runs) =>
                /\ ~controls'[c].disabled
                /\ controls'[c].label = Head(controls[c].runs)]_vars
    /\ [](\A c \in DOMAIN controls : Len(controls[c].runs) <= 1)

----------------------------------------------------------------------------
(***************************************************************************)
(* The reference list of finalizeArticle.  A grounding chunk is a record   *)
(* of the uri and the title of chunk.web; 0 stands for a missing value     *)
(* (no web, no uri, no title).                                             *)
(***************************************************************************)
MaxCitations == 9

\* cap of the reference list: src/index.tsx line 1673
ReferenceCap == 7

exceptFn == <<retry, pipelineVars, articleVars, coreVars, histVars, videoVars,
              audioVars, submitVars, auditVars, controlVars>>

\* coreReferences of n chunks: the uris repeat with period m, every gap-th
\* chunk has no uri, every third has no title
Citations(n, m, gap) ==
    [k \in 1..n |->
        [uri |-> IF gap # 0 /\ k % gap = 0 THEN 0 ELSE (k % m) + 1,
         title |-> IF k % 3 = 0 THEN 0 ELSE 100 + k]]

CitationSamples ==
    {Citations(n, m, gap) : n \in 0..MaxCitations, m \in 1..MaxCitations,
                            gap \in {0, 2, 3}}

\* the rest of the pipeline has run; finalizeArticle is about to build the
\* reference list
InitReferences ==
    /\ RetryIdle /\ FlowIdle(TRUE) /\ run = <<>> /\ HandlersIdle
    /\ core = [pc |-> "unused"]
    /\ histPending = <<>> /\ now = 0 /\ histCalls = 0
    /\ VideoIdle /\ AudioIdle /\ SubmitsIdle /\ AuditsIdle /\ ControlsIdle
    /\ articles = <<>> /\ imageDb = EmptyMap
    /\ currentArticle = NoArticle /\ display = "initial" /\ rendering = {}
    /\ \E refs \in CitationSamples :
         fnCall = [fn |-> "finalReferences", pc |-> "called",
                   arg |-> refs, result |-> <<>>]

\* groundedReferences (lines 1668-1670): the chunks with web.uri, the title
\* falling back to the uri
RECURSIVE GroundedReferences(_)
GroundedReferences(chunks) ==
    IF chunks = <<>> THEN <<>>
    ELSE LET c == Head(chunks)
             rest == GroundedReferences(Tail(chunks))
         IN  IF c.uri = 0 THEN rest
             ELSE <<[uri |-> c.uri,
                     title |-> IF c.title # 0 THEN c.title ELSE c.uri]>> \o rest

\* map.set(key, value) of the Map constructor: a new key is appended, a
\* key the map has keeps its place and gets the new value
MapSet(entries, item) ==
    IF \E k \in 1..Len(entries) : entries[k].uri = item.uri
      THEN [k \in 1..Len(entries) |->
               IF entries[k].uri = item.uri THEN item ELSE entries[k]]
      ELSE Append(entries, item)

\* [...new Map(items.map(item => [item.uri, item])).values()] (line 1672)
RECURSIVE UniqueReferences(_, _)
UniqueReferences(entries, items) ==
    IF items = <<>> THEN entries
    ELSE UniqueReferences(MapSet(entries, Head(items)), Tail(items))

\* slice(0, 7)
Slice(list, n) == SubSeq(list, 1, IF Len(list) < n THEN Len(list) ELSE n)

\* a reference list that is neither deduplicated nor cut
AllReferences(coreReferences) == GroundedReferences(coreReferences)

\* finalReferences (lines 1668-1673)
FinalReferences(coreReferences) ==
    Slice(UniqueReferences(<<>>, GroundedReferences(coreReferences)), ReferenceCap)

\* finalizeArticle builds the reference list
BuildReferences ==
    /\ fnCall # <<>> /\ fnCall.fn = "finalReferences" /\ fnCall.pc = "called"
    /\ fnCall' = [fnCall EXCEPT !.pc = "returned",
                                !.result = FinalReferences(fnCall.arg)]
    /\ UNCHANGED exceptFn

NextReferences == BuildReferences

SpecReferences == InitReferences /\ [][NextReferences]_vars

\* the uris of the chunks that have one, each at its first occurrence only
RECURSIVE FirstOccurrences(_, _)
FirstOccurrences(chunks, seen) ==
    IF chunks = <<>> THEN <<>>
    ELSE LET u == Head(chunks).uri
         IN  IF u = 0 \/ u \in seen THEN FirstOccurrences(Tail(chunks), seen)
             ELSE <<u>> \o FirstOccurrences(Tail(chunks), seen \cup {u})

\* C26: the uris of the reference list are the uris of the grounding chunks
\* that have one, each once, in the order of their first occurrence, cut to
\* the first 7; no uri occurs twice, the list has at most 7 entries, and
\* every entry is the citation of a chunk with that uri.
C26_ReferencesDeduplicated ==
    (fnCall # <<>> /\ fnCall.fn = "finalReferences" /\ fnCall.pc = "returned") =>
        LET refs == fnCall.result
            uris == [k \in 1..Len(refs) |-> refs[k].uri]
        IN  /\ uris = Slice(FirstOccurrences(fnCall.arg, {}), ReferenceCap)
            /\ \A j, k \in 1..Len(refs) : j # k => refs[j].uri # refs[k].uri
            /\ Len(refs) <= ReferenceCap
            /\ \A k \in 1..Len(refs) :
                  \E x \in 1..Len(fnCall.arg) :
                      /\ fnCall.arg[x].uri = refs[k].uri
                      /\ refs[k].title \in {fnCall.arg[x].title, refs[k].uri}

\* nine chunks with eight different uris, one of them twice, gave a list of
\* seven
C26_Witness ==
    /\ fnCall # <<>> /\ fnCall.fn = "finalReferences" /\ fnCall.pc = "returned"
    /\ fnCall.arg = Citations(9, 8, 0)
    /\ Len(fnCall.result) = ReferenceCap

----------------------------------------------------------------------------
(***************************************************************************)
(* renderMarkdownToHtml on its own, and the data-key of a wrapper.  A      *)
(* string is coded by the bytes of its tokens: a token of ASCII text has   *)
(* one byte below 128 (standing for the bytes of its characters), a token  *)
(* with a non-ASCII character a three-byte UTF-8 sequence.                 *)
(***************************************************************************)
MaxParts == 2

AsciiTokens ==
    <<"IG", "IS", "IC", "{", "}", "]", "[", "[!", "nl", "q", "q&", "q&amp;",
      "t", "&", "&amp;", "#">>

\* encodeURIComponent(str) with every %XX replaced by the character of that
\* code (line 2381): the UTF-8 bytes of the string
TokenBytes(t) ==
    IF t = "u" THEN <<227, 129, 130>>
    ELSE IF t = "qu" THEN <<226, 129, 130>>
    ELSE <<31 + CHOOSE k \in 1..Len(AsciiTokens) : AsciiTokens[k] = t>>

RECURSIVE Utf8Bytes(_)
Utf8Bytes(s) ==
    IF s = <<>> THEN <<>> ELSE TokenBytes(Head(s)) \o Utf8Bytes(Tail(s))

\* btoa: three bytes give four sextets; 64 is the padding character
RECURSIVE Btoa(_)
Btoa(b) ==
    IF b = <<>> THEN <<>>
    ELSE IF Len(b) = 1
      THEN <<b[1] \div 4, (b[1] % 4) * 16, 64, 64>>
    ELSE IF Len(b) = 2
      THEN <<b[1] \div 4, (b[1] % 4) * 16 + b[2] \div 16, (b[2] % 16) * 4, 64>>
    ELSE <<b[1] \div 4, (b[1] % 4) * 16 + b[2] \div 16,
           (b[2] % 16) * 4 + b[3] \div 64, b[3] % 64>>
         \o Btoa(SubSeq(b, 4, Len(b)))

\* atob
RECURSIVE Atob(_)
Atob(c) ==
    IF Len(c) < 4 THEN <<>>
    ELSE LET b1 == c[1] * 4 + c[2] \div 16
             b2 == (c[2] % 16) * 16 + c[3] \div 4
             b3 == (c[3] % 4) * 64 + c[4]
         IN  (IF c[3] = 64 THEN <<b1>>
              ELSE IF c[4] = 64 THEN <<b1, b2>>
              ELSE <<b1, b2, b3>>) \o Atob(SubSeq(c, 5, Len(c)))

\* decodeURIComponent of the percent-encoded bytes: the tokens, or <<"throws">>
\* in front of what was decoded when a sequence is not UTF-8
RECURSIVE Utf8Decode(_)
Utf8Decode(b) ==
    IF b = <<>> THEN <<>>
    ELSE IF b[1] \in 32..(31 + Len(AsciiTokens))
      THEN <<AsciiTokens[b[1] - 31]>> \o Utf8Decode(Tail(b))
    ELSE IF Len(b) >= 3 /\ SubSeq(b, 1, 3) = <<227, 129, 130>>
      THEN <<"u">> \o Utf8Decode(SubSeq(b, 4, Len(b)))
    ELSE IF Len(b) >= 3 /\ SubSeq(b, 1, 3) = <<226, 129, 130>>
      THEN <<"qu">> \o Utf8Decode(SubSeq(b, 4, Len(b)))
    ELSE <<"throws">>

\* encodeUnicode (line 2381)
EncodeUnicode(str) == Btoa(Utf8Bytes(str))

\* decodeUnicode (line 2382): the text, or the argument when decoding throws
DecodeUnicode(str) ==
    LET text == Utf8Decode(Atob(str))
    IN  IF \E k \in 1..Len(text) : text[k] = "throws" THEN str ELSE text

\* renderArticle (lines 1835-1837): the key looked up in imageMap for a
\* wrapper, decodeUnicode(wrapper.dataset.key)
LookupKey(wrapper) == DecodeUnicode(EncodeUnicode(wrapper.data))

\* the pieces a markdown sample is made of: text, image and screenshot
\* placeholders, chart placeholders with JSON that parses (the second with
\* an array value) and with JSON that does not (the second with a comma
\* missing in an array)
TextParts == {<<"t">>, <<"&">>, <<"u">>}
ImageParts ==
    {<<"IG", "{", "q", "}", "]">>, <<"IS", "{", "q", "}", "]">>,
     <<"IG", "{", "qu", "}", "]">>, <<"IG", "{", "q&", "}", "]">>}
ValidCharts ==
    {<<"IC", "{", "q", "}", "]">>, <<"IC", "{", "q", "[", "]", "}", "]">>}
MalformedCharts ==
    {<<"IC", "{", "t", "}", "]">>, <<"IC", "{", "[!", "]", "q", "}", "]">>}
Parts == TextParts \cup ImageParts \cup ValidCharts \cup MalformedCharts

RECURSIVE Flatten(_)
Flatten(parts) ==
    IF parts = <<>> THEN <<>> ELSE Head(parts) \o Flatten(Tail(parts))

\* renderArticle is about to render a markdown of up to MaxParts pieces
InitRender ==
    /\ RetryIdle /\ FlowIdle(TRUE) /\ run = <<>> /\ HandlersIdle
    /\ core = [pc |-> "unused"]
    /\ histPending = <<>> /\ now = 0 /\ histCalls = 0
    /\ VideoIdle /\ AudioIdle /\ SubmitsIdle /\ AuditsIdle /\ ControlsIdle
    /\ articles = <<>> /\ imageDb = EmptyMap
    /\ currentArticle = NoArticle /\ display = "initial" /\ rendering = {}
    /\ \E n \in 1..MaxParts : \E parts \in [1..n -> Parts] :
         fnCall = [fn |-> "renderMarkdownToHtml", pc |-> "called",
                   arg |-> parts, result |-> <<>>]

\* renderMarkdownToHtml(markdown) returns (lines 1705-1785)
RenderReturns ==
    /\ fnCall # <<>> /\ fnCall.fn = "renderMarkdownToHtml" /\ fnCall.pc = "called"
    /\ fnCall' = [fnCall EXCEPT !.pc = "returned",
                                !.result = RenderMarkdownToHtml(Flatten(fnCall.arg))]
    /\ UNCHANGED exceptFn

NextRender == RenderReturns

SpecRender == InitRender /\ [][NextRender]_vars

\* renderMarkdownToHtml has returned
Rendered ==
    fnCall # <<>> /\ fnCall.fn = "renderMarkdownToHtml" /\ fnCall.pc = "returned"

\* the wrappers of a markup, in order
RECURSIVE Wrappers(_)
Wrappers(html) ==
    IF html = <<>> THEN <<>>
    ELSE (IF Head(html).el = "image-placeholder-wrapper" THEN <<Head(html)>>
          ELSE <<>>) \o Wrappers(Tail(html))

\* C27: the markup has one wrapper for every image-generation and
\* screenshot placeholder of the markdown, in order, and decodeUnicode of the
\* data-key of a wrapper is the text of its placeholder in the markdown, the
\* key of imageMap, also when the placeholder holds non-ASCII text or one of
\* the characters &, < and >.
C27_PlaceholderKeysRoundTrip ==
    Rendered =>
        LET md == Flatten(fnCall.arg)
            ms == PlaceholderMatches(md, 1, {"IG", "IS"}, TRUE)
            ws == Wrappers(fnCall.result)
        IN  /\ Len(ws) = Len(ms)
            /\ \A k \in 1..Len(ws) : LookupKey(ws[k]) = MatchText(md, ms[k])

\* the markup of the pieces before and behind piece k, with `block` between
AroundPiece(parts, k, block) ==
    RenderMarkdownToHtml(Flatten(SubSeq(parts, 1, k - 1)))
    \o <<block>>
    \o RenderMarkdownToHtml(Flatten(SubSeq(parts, k + 1, Len(parts))))

\* C28: renderMarkdownToHtml returns for a markdown with a chart placeholder
\* whose JSON is malformed, and the markup is the markup of the text before
\* the placeholder, one error block, and the markup of the text behind it:
\* nothing of the payload is left.
C28_MalformedChartIsOneErrorBlock ==
    Rendered =>
        \A k \in 1..Len(fnCall.arg) :
            fnCall.arg[k] \in MalformedCharts =>
                fnCall.result =
                    AroundPiece(fnCall.arg, k, [el |-> "error", data |-> <<>>])

\* C30: a chart placeholder whose payload is valid JSON, with array values
\* or without, is replaced by a chart container that carries the whole
\* payload, never by the error block.
C30_ValidChartBecomesContainer ==
    Rendered =>
        \A k \in 1..Len(fnCall.arg) :
            fnCall.arg[k] \in ValidCharts =>
                LET part == fnCall.arg[k]
                IN  fnCall.result =
                        AroundPiece(fnCall.arg, k,
                            [el |-> "chart-container",
                             data |-> EscapeHtml(SubSeq(part, 2, Len(part) - 1))])

\* a record with no binary asset
NoAssets(rec) == "coverImage" \notin DOMAIN rec /\ "imageMap" \notin DOMAIN rec

\* C29: no record of the metadata list `articles` carries a coverImage or
\* an imageMap, whatever writes were made (update by edit, proofread,
\* fact-check, schedule and render, audit, performance input); the assets of
\* an article are in the asset store under its id.
C29_MetadataHasNoAssets ==
    \A x \in 1..Len(articles) :
        /\ NoAssets(articles[x])
        /\ articles[x].id \in DOMAIN imageDb
        /\ DOMAIN imageDb[articles[x].id] = {"coverImage", "imageMap"}

\* an article with a cover image was audited after its performance input
\* was saved
C29_Witness ==
    /\ Busy = 0
    /\ articles[1].lastCheckedForUpdate = "date"
    /\ articles[1].performance = "analysis+userInput"
    /\ imageDb[articles[1].id].coverImage = "img"
    /\ NoAssets(articles[1])

----------------------------------------------------------------------------
(***************************************************************************)
(* finalizeArticle: the markdown handed to the three analysis stages.      *)
(* Three more tokens of decorated markdown:                                *)
(*   "BX"  the literal  [BOX:tip:   (or info, warning, quote)              *)
(*   "SM"  the literal  [SUMMARY:                                          *)
(*   "pd"  the divider line of a paid article                              *)
(***************************************************************************)
BracketTags == {"IG", "IS", "IC", "BX", "SM"}

BoxParts == {<<"BX", "t", "]">>}
SummaryParts == {<<"SM", "t", "]">>}
AnalysisParts ==
    Parts \cup BoxParts \cup SummaryParts \cup {<<"pd">>}

\* the tokens of s from position p on that no match of ms covers
RECURSIVE Unmatched(_, _, _)
Unmatched(s, p, ms) ==
    IF p > Len(s) THEN <<>>
    ELSE IF \E k \in 1..Len(ms) : ms[k][1] <= p /\ p <= ms[k][2]
      THEN Unmatched(s, p + 1, ms)
    ELSE <<s[p]>> \o Unmatched(s, p + 1, ms)

\* cleanMarkdownForAnalysis (lines 1650-1652): the matches of
\* /\[(IMAGE_GENERATE|IMAGE_SCREENSHOT|INTERACTIVE_CHART):({[\s\S]*?})\]/g
\* and the paid divider replaced by ''
CleanMarkdownForAnalysis(finalMarkdown) ==
    SelectSeq(Unmatched(finalMarkdown, 1,
                        PlaceholderMatches(finalMarkdown, 1, {"IG", "IS", "IC"}, TRUE)),
              LAMBDA t : t # "pd")

\* the images are generated; finalizeArticle is called with a decorated
\* markdown of up to MaxParts pieces
InitAnalysis ==
    /\ RetryIdle /\ FlowIdle(TRUE) /\ run = <<>> /\ HandlersIdle
    /\ core = [pc |-> "unused"]
    /\ histPending = <<>> /\ now = 0 /\ histCalls = 0
    /\ VideoIdle /\ AudioIdle /\ SubmitsIdle /\ AuditsIdle /\ ControlsIdle
    /\ articles = <<>> /\ imageDb = EmptyMap
    /\ currentArticle = NoArticle /\ display = "initial" /\ rendering = {}
    /\ \E n \in 1..MaxParts : \E parts \in [1..n -> AnalysisParts] :
         fnCall = [fn |-> "finalizeArticle", pc |-> "called",
                   arg |-> parts, result |-> <<>>]

\* finalizeArticle calls a stage with cleanMarkdownForAnalysis
CallStage(from, stage) ==
    /\ fnCall # <<>> /\ fnCall.fn = "finalizeArticle" /\ fnCall.pc = from
    /\ fnCall' = [fnCall EXCEPT
                    !.pc = stage,
                    !.result = Append(@, [stage |-> stage,
                                          markdown |-> CleanMarkdownForAnalysis(
                                                           Flatten(fnCall.arg))])]
    /\ UNCHANGED exceptFn

\* lines 1650-1656
AnalysisCallsFaq == CallStage("called", "faq")

\* generateFaqSection has returned (its failure returns []): line 1660
AnalysisCallsPerformance == CallStage("faq", "performance")

\* analyzeArticlePerformance has returned (its failure returns undefined):
\* line 1664
AnalysisCallsEnhancements == CallStage("performance", "enhancements")

NextAnalysis ==
    \/ AnalysisCallsFaq
    \/ AnalysisCallsPerformance
    \/ AnalysisCallsEnhancements

SpecAnalysis == InitAnalysis /\ [][NextAnalysis]_vars

\* C31: the markdown passed to the FAQ, performance and enhancement stages
\* holds no bracket-tag placeholder of any type: no IMAGE_GENERATE,
\* IMAGE_SCREENSHOT, INTERACTIVE_CHART, BOX or SUMMARY tag of the decorated
\* markdown is left in it.
C31_AnalysisMarkdownHasNoPlaceholders ==
    (fnCall # <<>> /\ fnCall.fn = "finalizeArticle") =>
        \A k \in 1..Len(fnCall.result) :
            \A x \in 1..Len(fnCall.result[k].markdown) :
                fnCall.result[k].markdown[x] \notin BracketTags

----------------------------------------------------------------------------
(***************************************************************************)
(* Overlapping assembly runs: the flow with a second click on a direction  *)
(* card while the timer of the first click is pending.                     *)
(***************************************************************************)

\* click on a direction card (lines 1165-1172) within the 300 ms of an
\* earlier click: the pane is still shown, the handler has no guard
DirectionClickAgain ==
    /\ timers = 1 /\ Busy = 1
    /\ ~step3Hidden
    /\ \E d \in 1..directionCards :
         selectedDirection' = IF d <= suggestedDirections THEN d ELSE 0
    /\ timers' = timers + 1
    /\ UNCHANGED <<apiKey, btnDisabled, step1Hidden, step2Hidden, step3Hidden,
                   suggestedOutlines, outlineCards, selectedOutline,
                   suggestedDirections, directionCards,
                   currentResearchedText, pcSubmit, pcDirections, run,
                   storeVars, retry, articleVars, auxVars>>

NextOverlap ==
    \/ NextFlow
    \/ DirectionClickAgain

SpecOverlap == InitFlow /\ [][NextOverlap]_vars

\* the assembly runs in progress
RunsInProgress == {r \in Runs : InFlight(r)}

\* C32: at most one assembly run is in progress at any time, and while a
\* run is in progress (from its start until complete or failed) the
\* generate control is disabled.
C32_OneAssemblyRun ==
    /\ Cardinality(RunsInProgress) <= 1
    /\ RunsInProgress # {} => btnDisabled

----------------------------------------------------------------------------
(***************************************************************************)
(* Handlers of stored articles that overlap: a history of two articles,    *)
(* and the user opening another article or saving a schedule while the AI  *)
(* call of a handler is in flight.                                         *)
(***************************************************************************)
MaxSharedStored == 2

\* page load with a history of two articles that were rendered before
InitShared ==
    /\ RetryIdle /\ FlowIdle(TRUE) /\ run = <<>> /\ HandlersIdle
    /\ AuxIdle
    /\ currentArticle = NoArticle /\ display = "initial" /\ rendering = {}
    /\ LET item(x) == StoredItem(x, <<"t", "IG", "{", "q", "}", "]">>, TRUE,
                                 "analysis", TRUE)
       IN  /\ articles = [x \in 1..MaxSharedStored |-> WithoutImages(item(x))]
           /\ imageDb = [x \in 1..MaxSharedStored |-> Assets(item(x))]

\* click on .edit-btn of the history list (lines 2456-2471) while the call
\* of the edit, proofread or fact-check handler is in flight
OpenArticleMeanwhile ==
    /\ Busy = 1
    /\ pcEdit # <<>> \/ pcProofread # "idle" \/ pcFactCheck # "idle"
    /\ \E x \in 1..Len(articles) :
         RenderArticle(Full(articles[x]), "loading", rendering)
    /\ step1Hidden' = FALSE /\ step2Hidden' = TRUE /\ step3Hidden' = TRUE
    /\ UNCHANGED <<apiKey, btnDisabled, suggestedOutlines, outlineCards,
                   selectedOutline, suggestedDirections, directionCards,
                   selectedDirection, currentResearchedText, pcSubmit,
                   pcDirections, timers, run, articles, imageDb,
                   retry, articleVars, auxVars>>

\* saveScheduleBtn click with a date chosen (lines 619-629) while the call
\* of handleContentAudit is in flight
SaveScheduleMeanwhile ==
    /\ Busy = 1
    /\ pcAudit # <<>>
    /\ currentArticle # NoArticle
    /\ LET scheduled == [currentArticle EXCEPT !.scheduledAt = "date"]
       IN  /\ MutateCurrent(scheduled)
           /\ UpdateArticleInHistory(scheduled)
    /\ UNCHANGED <<flowVars, run, display, retry, articleVars, auxVars>>

NextShared ==
    \/ OpenArticle \/ RenderResumes
    \/ EditSaveClick \/ EditSaveResolves
    \/ ProofreadClick \/ ProofreadFails \/ ProofreadResolves
    \/ FactCheckClick \/ FactCheckFails \/ FactCheckResolves
    \/ SaveSchedule
    \/ AuditClick \/ AuditFails \/ AuditResolves
    \/ OpenArticleMeanwhile
    \/ SaveScheduleMeanwhile

SpecShared == InitShared /\ [][NextShared]_vars

\* the records of the history other than that of article id
OthersUnchanged(id) ==
    \A x \in 1..Len(articles) :
        articles[x].id # id =>
            /\ articles'[x].md = articles[x].md
            /\ articles'[x].factCheck = articles[x].factCheck
            /\ articles'[x].performance = articles[x].performance

\* C33: the result of a proofread, fact-check or edit-save in flight is
\* written only to the article that was current when the action was
\* started: when its call returns, the markdown, the fact-check bundle and
\* the performance of every other article of the history are unchanged,
\* also when the user has opened another article in between.
C33_ResultGoesToStartingArticle ==
    /\ [][ProofreadResolves => OthersUnchanged(promptArticle.proofread)]_vars
    /\ [][FactCheckResolves => OthersUnchanged(promptArticle.factCheck)]_vars
    /\ [][EditSaveResolves => OthersUnchanged(promptArticle.edit)]_vars

\* C34: the write of handleContentAudit changes only the last-audited
\* timestamp of the persisted article: every other field of the record
\* (markdown, html, factCheck, scheduledAt, ...) and every other record has
\* after the write the value it had in the list immediately before it, also
\* when an edit, proofread or schedule change was saved while the audit
\* call was in flight.
C34_AuditChangesOnlyTimestamp ==
    [][AuditResolves =>
         \A x \in 1..Len(articles) :
             articles'[x] =
                 IF articles[x].id = pcAudit[1].id
                   THEN [articles[x] EXCEPT !.lastCheckedForUpdate = "date"]
                   ELSE articles[x]]_vars

\* C35: once an audit has stamped lastCheckedForUpdate on a record of the
\* history, no schedule, fact-check, proofread or edit-save operation takes
\* the timestamp away from the record, also when the audited article is the
\* one currentArticle holds since before the audit.
C35_TimestampIsKept ==
    [][(SaveSchedule \/ RemoveSchedule \/ FactCheckResolves
          \/ ProofreadResolves \/ EditSaveResolves) =>
         \A x \in 1..Len(articles) :
             articles[x].lastCheckedForUpdate = "date" =>
                 articles'[x].lastCheckedForUpdate = "date"]_vars

\* no execution of handleContentAudit and no history call is in flight
AuditsAtRest ==
    /\ histPending = <<>>
    /\ \A a \in DOMAIN audits : audits[a].pc \in {"done", "failed"}

\* C36: the two stores stay joined: whenever no operation is in flight,
\* every id with a record in the asset store has a record in `articles`; an
\* operation that completes after its article was deleted does not create
\* an asset record for it again.
C36_StoresStayJoined ==
    AuditsAtRest =>
        \A id \in DOMAIN imageDb : \E x \in 1..Len(articles) : articles[x].id = id

\* C37: when the edit-with-suggestions control is used, the suggestions
\* loaded into the editor are those the audit produced for the article that
\* is opened, the article of currentAuditArticleId, also when a second audit
\* of another article was started before the first answered.
C37_SuggestionsBelongToArticle ==
    suggestionEdit.pc = "done" =>
        \A k \in 1..Len(suggestionEdit.loaded) :
            suggestionEdit.loaded[k] = suggestionEdit.stub.id

\* C38: the performance data the user entered (performance.userInput)
\* survives an edit save: when the saveEditButton handler has stored the
\* article, a record that had userInput before has it still, whether the
\* new performance analysis succeeded or failed.
C38_UserInputSurvivesEdit ==
    [][EditSaveResolves =>
         \A x \in 1..Len(articles) :
             HasUserInput(articles[x].performance) =>
                 HasUserInput(articles'[x].performance)]_vars

----------------------------------------------------------------------------
(***************************************************************************)
(* The polling loop with more than one video in generation: the page is    *)
(* loaded with a history whose articles are all pending with an operation  *)
(* name (their kick-offs were made before the reload); the user opens      *)
(* articles and the timer callbacks run.                                   *)
(***************************************************************************)
MaxPending == 2

InitPolling ==
    /\ RetryIdle /\ run = <<>> /\ HandlersIdle
    /\ \E key \in BOOLEAN : FlowIdle(key)
    /\ core = [pc |-> "unused"]
    /\ histPending = <<>> /\ now = 0 /\ histCalls = 0
    /\ AudioIdle /\ SubmitsIdle /\ AuditsIdle /\ ControlsIdle /\ FnIdle
    /\ imageDb = EmptyMap /\ display = "initial" /\ rendering = {}
    /\ videoGenerationPollingInterval = 0 /\ liveTimers = {}
    /\ timersCreated = 0
    /\ objects = [o \in 1..MaxObjects |-> NoObject]
    /\ videoCalls = [c \in 1..MaxVideoCalls |-> IdleCall]
    /\ videoTicks = [k \in 1..MaxTicks |-> IdleTick]
    /\ videoOpens = {}
    /\ currentArticle = 0
    /\ articles = [x \in 1..MaxPending |->
                      VideoArticle(MaxPending + 1 - x, "pending", 1)]

\* getVideosOperation resolves with an operation that is done
TickOperationDone(k) ==
    TickOperationResolves(k) /\ videoTicks'[k].result # "running"

NextPolling ==
    \/ VideoOpenClick
    \/ VideoOpenResumes
    \/ TickFindsNone
    \/ TickPolls
    \/ \E k \in 1..MaxTicks : TickOperationResolves(k)
    \/ \E k \in 1..MaxTicks : TickOperationRejects(k)
    \/ \E k \in 1..MaxTicks : TickReadResolves(k)
    \/ \E k \in 1..MaxTicks : TickFetchResolves(k)
    \/ \E k \in 1..MaxTicks : TickFetchRejects(k)
    \/ \E k \in 1..MaxTicks : TickUpdateResumes(k)
    \/ \E k \in 1..MaxTicks : TickCatchReadResolves(k)
    \/ \E k \in 1..MaxTicks : TickCatchUpdateResumes(k)

SpecPolling == InitPolling /\ [][NextPolling]_vars

\* setInterval runs the callback for as long as the timer is not cleared;
\* every call a callback or the history view awaits returns, and the
\* provider does not report an operation as running for ever
SpecPollingLive ==
    /\ SpecPolling
    /\ WF_vars(TimerTick)
    /\ WF_vars(VideoOpenResumes)
    /\ \A k \in 1..MaxTicks :
          /\ WF_vars(TickOperationResolves(k) \/ TickOperationRejects(k))
          /\ SF_vars(TickOperationDone(k) \/ TickOperationRejects(k))
          /\ WF_vars(TickReadResolves(k))
          /\ WF_vars(TickFetchResolves(k) \/ TickFetchRejects(k))
          /\ WF_vars(TickUpdateResumes(k))
          /\ WF_vars(TickCatchReadResolves(k))
          /\ WF_vars(TickCatchUpdateResumes(k))

\* the record of article id is pending with an operation name
VideoPending(id) ==
    \E x \in 1..Len(articles) :
        /\ articles[x].id = id
        /\ articles[x].videoStatus = "pending"
        /\ articles[x].videoOperationName # 0

\* the record of article id has the status completed or failed
VideoSettled(id) ==
    \E x \in 1..Len(articles) :
        /\ articles[x].id = id
        /\ articles[x].videoStatus \in {"completed", "failed"}

\* C39: every article that is pending with an operation name while the
\* polling loop runs eventually has the status completed or failed, when
\* the provider eventually reports each operation as done or the poll
\* fails; also when more than one article is pending at the same time.
C39_PendingVideosSettle ==
    \A id \in 1..MaxPending :
        (VideoPending(id) /\ liveTimers # {}) ~> VideoSettled(id)

----------------------------------------------------------------------------
(***************************************************************************)
(* Termination of generateArticleAssemblyLine: every call the run awaits   *)
(* (the AI calls after their retries, the write to the asset store)        *)
(* returns or fails.                                                       *)
(***************************************************************************)
\* the call run r is waiting for returns or fails
RunContinues(r) ==
    \/ CoreFails(r) \/ CoreResolves(r)
    \/ DecorateFails(r) \/ DecorateResolves(r, AnyOutcome)
    \/ ImageResolves(r, AnyOutcome)
    \/ FaqResolves(r, AnyOutcome)
    \/ PerformanceResolves(r, AnyOutcome)
    \/ EnhancementsResolves(r, AnyOutcome)
    \/ SaveResolves(r)

\* the calls a run awaits, in the order of the code
AwaitedCalls ==
    <<"core", "decorate", "images", "faq", "performance", "enhancements",
      "saving">>

\* the position of a run: 0 before its start, the index of the call it
\* awaits, or 8 when it has ended
Position(pc) ==
    IF pc = "idle" THEN 0
    ELSE IF pc \in {"complete", "failed"} THEN Len(AwaitedCalls) + 1
    ELSE FirstOf({k \in 1..Len(AwaitedCalls) : AwaitedCalls[k] = pc})

\* weak fairness of RunContinues(r), with ENABLED written as the guards of
\* its actions: a step of RunContinues(r) is possible in the states in which
\* run r awaits a call
CallsReturn(r) ==
    \/ []<>(~InFlight(r))
    \/ []<><<RunContinues(r)>>_vars

SpecTerminates ==
    Spec /\ \A r \in 1..MaxRuns : CallsReturn(r)

\* C40: every assembly run terminates.  A run in progress awaits one of the
\* calls of the pipeline (the image call of a task of its list); each return
\* moves it to a later call, to the next image task or to its end; so, when
\* every call returns or fails, the run eventually is complete or failed.
\* The step that ends it runs setLoading(false), which enables the generate
\* control (and hides the spinner and empties the progress container); a
\* complete run has put its article into the history and the asset store
\* and made it the displayed article, a failed run shows the error.
C40_RunTerminates ==
    /\ [](\A r \in Runs :
            InFlight(r) =>
                /\ Position(run[r].pc) \in 1..Len(AwaitedCalls)
                /\ run[r].pc = "images" =>
                      run[r].k \in 1..Len(AllImageTasks(run[r].md)))
    /\ [][\A r \in Runs :
            (InFlight(r) /\ run'[r] # run[r]) =>
                \/ Position(run'[r].pc) > Position(run[r].pc)
                \/ /\ run'[r].pc = "images" /\ run[r].pc = "images"
                   /\ run'[r].md = run[r].md
                   /\ run'[r].k = run[r].k + 1]_vars
    /\ \A r \in 1..MaxRuns :
          InFlight(r) ~> (run[r].pc \in {"complete", "failed"})
    /\ [][\A r \in Runs :
            (InFlight(r) /\ run'[r].pc \in {"complete", "failed"}) =>
                /\ ~btnDisabled'
                /\ run'[r].pc = "complete" =>
                      /\ articles'[1].id = r
                      /\ r \in DOMAIN imageDb'
                      /\ currentArticle'.id = r
                /\ run'[r].pc = "failed" => display' = "error"]_vars

\* a run ended complete although one of its analysis stages failed, and the
\* article is drawn; the generate control is enabled
C40_Witness ==
    /\ run[1].pc = "complete" /\ run[1].stageFailed # {}
    /\ display = "article" /\ rendering = {}
    /\ ~btnDisabled

====
